---- MODULE Spec2Model ----
(***************************************************************************)
(* Model of the shebang-remote server store (server/views.py), its script  *)
(* safety validator (server/serializers.py) and the agent loop (agent.py). *)
(* Text is modelled as sequences of one-character strings, so that the     *)
(* validator and the name normalisation are computed as the code computes  *)
(* them.                                                                   *)
(***************************************************************************)
EXTENDS Integers, Sequences, FiniteSets, TLC

(***************************************************************************)
(* Text helpers: the Python str methods the validator uses.                *)
(***************************************************************************)
UpperLetters ==
    {"A","B","C","D","E","F","G","H","I","J","K","L","M",
     "N","O","P","Q","R","S","T","U","V","W","X","Y","Z"}

LowerLetters ==
    {"a","b","c","d","e","f","g","h","i","j","k","l","m",
     "n","o","p","q","r","s","t","u","v","w","x","y","z"}

Digits ==
    {"0","1","2","3","4","5","6","7","8","9"}

\* str.strip() with no argument removes these (the ASCII part of it)
Whitespace ==
    {" ", "\t", "\n", "\r"}

LowerChar(c) ==
    CASE c = "A" -> "a" []
         c = "B" -> "b" []
         c = "C" -> "c" []
         c = "D" -> "d" []
         c = "E" -> "e" []
         c = "F" -> "f" []
         c = "G" -> "g" []
         c = "H" -> "h" []
         c = "I" -> "i" []
         c = "J" -> "j" []
         c = "K" -> "k" []
         c = "L" -> "l" []
         c = "M" -> "m" []
         c = "N" -> "n" []
         c = "O" -> "o" []
         c = "P" -> "p" []
         c = "Q" -> "q" []
         c = "R" -> "r" []
         c = "S" -> "s" []
         c = "T" -> "t" []
         c = "U" -> "u" []
         c = "V" -> "v" []
         c = "W" -> "w" []
         c = "X" -> "x" []
         c = "Y" -> "y" []
         c = "Z" -> "z"
      [] OTHER -> c

\* str.lower()
Lower(s) ==
    [i \in 1..Len(s) |-> LowerChar(s[i])]

\* s.startswith(p)
StartsWith(s, p) ==
    /\ Len(p) <= Len(s)
    /\ SubSeq(s, 1, Len(p)) = p

\* sub in s
Contains(s, sub) ==
    \E i \in 0..(Len(s) - Len(sub)) : SubSeq(s, i + 1, i + Len(sub)) = sub

RECURSIVE LStripChars(_, _)
LStripChars(s, chars) ==
    IF s # <<>> /\ Head(s) \in chars THEN LStripChars(Tail(s), chars) ELSE s

RECURSIVE RStripChars(_, _)
RStripChars(s, chars) ==
    IF s # <<>> /\ s[Len(s)] \in chars
    THEN RStripChars(SubSeq(s, 1, Len(s) - 1), chars)
    ELSE s

\* s.strip(chars)
StripChars(s, chars) ==
    RStripChars(LStripChars(s, chars), chars)

\* s.strip()
Strip(s) ==
    StripChars(s, Whitespace)

\* s.replace(c, '') for a one-character c
RECURSIVE RemoveChar(_, _)
RemoveChar(s, c) ==
    IF s = <<>> THEN <<>>
    ELSE IF Head(s) = c THEN RemoveChar(Tail(s), c)
    ELSE <<Head(s)>> \o RemoveChar(Tail(s), c)

\* s.split(sep) for a one-character sep: always at least one piece
RECURSIVE SplitAcc(_, _, _)
SplitAcc(s, sep, cur) ==
    IF s = <<>> THEN <<cur>>
    ELSE IF Head(s) = sep THEN <<cur>> \o SplitAcc(Tail(s), sep, <<>>)
    ELSE SplitAcc(Tail(s), sep, Append(cur, Head(s)))

Split(s, sep) ==
    SplitAcc(s, sep, <<>>)

\* s.splitlines(): no piece for the text after a final line break
LineBreaks ==
    {"\n", "\r"}

RECURSIVE SplitLinesAcc(_, _)
SplitLinesAcc(s, cur) ==
    IF s = <<>> THEN (IF cur = <<>> THEN <<>> ELSE <<cur>>)
    ELSE IF Head(s) = "\r" /\ Len(s) >= 2 /\ s[2] = "\n"
         THEN <<cur>> \o SplitLinesAcc(Tail(Tail(s)), <<>>)
    ELSE IF Head(s) \in LineBreaks THEN <<cur>> \o SplitLinesAcc(Tail(s), <<>>)
    ELSE SplitLinesAcc(Tail(s), Append(cur, Head(s)))

SplitLines(s) ==
    SplitLinesAcc(s, <<>>)

(***************************************************************************)
(* shlex.split(seg, comments=False): POSIX mode, whitespace_split.         *)
(* state is " " (between tokens), "a" (inside a word), a quote character   *)
(* or the escape character; quoted records that the token had quotes.      *)
(***************************************************************************)
ShlexWhitespace ==
    {" ", "\t", "\r", "\n"}

Apostrophe ==
    "'"

DoubleQuote ==
    "\""

ShlexQuotes ==
    {Apostrophe, DoubleQuote}

ShlexEscape ==
    "\\"

\* the reader between two characters: state, the token being built and
\* the tokens already emitted; ok is FALSE once the ValueError is raised
ShlexStart ==
    [ok |-> TRUE, state |-> " ", escapedstate |-> " ", token |-> <<>>,
     quoted |-> FALSE, tokens |-> <<>>]

\* one iteration of the loop of read_token, on the next character c
ShlexStep(r, c) ==
    IF r.state = " " THEN
        IF c \in ShlexWhitespace THEN r
        ELSE IF c = ShlexEscape
        THEN [r EXCEPT !.state = ShlexEscape, !.escapedstate = "a"]
        ELSE IF c \in ShlexQuotes
        THEN [r EXCEPT !.state = c, !.quoted = TRUE]
        ELSE [r EXCEPT !.state = "a", !.token = <<c>>]
    ELSE IF r.state \in ShlexQuotes THEN
        IF c = r.state THEN [r EXCEPT !.state = "a"]
        ELSE IF c = ShlexEscape /\ r.state = DoubleQuote
        THEN [r EXCEPT !.state = ShlexEscape, !.escapedstate = r.state]
        ELSE [r EXCEPT !.token = Append(r.token, c)]
    ELSE IF r.state = ShlexEscape THEN
        LET kept == IF r.escapedstate \in ShlexQuotes
                       /\ c # ShlexEscape /\ c # r.escapedstate
                    THEN Append(r.token, ShlexEscape)
                    ELSE r.token
        IN  [r EXCEPT !.state = r.escapedstate, !.token = Append(kept, c)]
    ELSE \* r.state = "a"
        IF c \in ShlexWhitespace
        THEN [r EXCEPT !.state = " ", !.token = <<>>, !.quoted = FALSE,
                       !.tokens = IF r.token # <<>> \/ r.quoted
                                  THEN Append(r.tokens, r.token)
                                  ELSE r.tokens]
        ELSE IF c \in ShlexQuotes
        THEN [r EXCEPT !.state = c, !.quoted = TRUE]
        ELSE IF c = ShlexEscape
        THEN [r EXCEPT !.state = ShlexEscape, !.escapedstate = "a"]
        ELSE [r EXCEPT !.token = Append(r.token, c)]

\* the end of the input: an open quote or a pending escape raises ValueError
ShlexEnd(r) ==
    IF r.state \in ShlexQuotes \/ r.state = ShlexEscape
    THEN [r EXCEPT !.ok = FALSE, !.tokens = <<>>]
    ELSE IF r.state = "a" /\ (r.token # <<>> \/ r.quoted)
    THEN [r EXCEPT !.tokens = Append(r.tokens, r.token)]
    ELSE r

RECURSIVE ShlexRead(_, _, _)
ShlexRead(s, i, r) ==
    IF i > Len(s) \/ ~r.ok THEN ShlexEnd(r)
    ELSE ShlexRead(s, i + 1, ShlexStep(r, s[i]))

\* shlex.split(seg, comments=False): [ok, tokens]
ShlexSplit(seg) ==
    LET r == ShlexRead(seg, 1, ShlexStart)
    IN  [ok |-> r.ok, tokens |-> r.tokens]

(***************************************************************************)
(* The script safety validator, ScriptSchema.validate_allowed_commands.    *)
(***************************************************************************)
allowed_commands ==
  {
    <<"a","w","k">>, <<"b","a","s","e","n","a","m","e">>, <<"c","a","t">>, <<"c","d">>,
    <<"c","p">>, <<"c","u","t">>, <<"d","a","t","e">>, <<"d","f">>, <<"d","i","f","f">>,
    <<"d","i","f","f","3">>, <<"d","i","g">>, <<"d","i","r","n","a","m","e">>,
    <<"d","m","e","s","g">>, <<"d","m","i","d","e","c","o","d","e">>, <<"d","u">>,
    <<"e","c","h","o">>, <<"e","n","v">>, <<"f","i","n","d">>, <<"f","r","e","e">>,
    <<"g","r","e","p">>, <<"h","e","a","d">>, <<"h","e","l","p">>,
    <<"h","i","s","t","o","r","y">>, <<"h","o","s","t">>, <<"h","o","s","t","n","a","m","e">>,
    <<"i","d">>, <<"i","n","f","o">>, <<"i","p">>,
    <<"j","o","u","r","n","a","l","c","t","l">>, <<"l","e","s","s">>, <<"l","l">>,
    <<"l","s">>, <<"l","s","o","f">>, <<"m","a","n">>, <<"m","d","5","s","u","m">>,
    <<"m","k","d","i","r">>, <<"m","o","r","e">>, <<"n","m","a","p">>, <<"p","i","n","g">>,
    <<"p","r","i","n","t","e","n","v">>, <<"p","r","i","n","t","f">>, <<"p","s">>,
    <<"p","w","d">>, <<"r","e","a","d","l","i","n","k">>, <<"r","m","d","i","r">>,
    <<"s","a","r">>, <<"s","e","d">>, <<"s","l","e","e","p">>, <<"s","o","r","t">>,
    <<"s","s">>, <<"s","t","a","t">>, <<"t","a","c">>, <<"t","a","i","l">>, <<"t","a","r">>,
    <<"t","o","u","c","h">>, <<"t","r">>, <<"u","n","a","m","e">>, <<"u","n","i","q">>,
    <<"u","p","t","i","m","e">>, <<"v","m","s","t","a","t">>, <<"w","c">>,
    <<"w","h","i","c","h">>, <<"w","h","o","a","m","i">>, <<"w","h","o","i","s">>,
    <<"x","a","r","g","s">>
  }

forbidden_path_prefixes ==
    << <<"/","e","t","c">>, <<"/","r","o","o","t">>, <<"/","b","o","o","t">>,
       <<"/","d","e","v">>, <<"/","p","r","o","c">>, <<"/","s","y","s">>,
       <<"/","v","a","r","/","l","i","b">>, <<"/","v","a","r","/","r","u","n">>,
       <<"/","r","u","n">> >>

\* the grave accent character (U+0060), which the module syntax cannot quote
Backtick ==
    "GRAVE"

disallowed_tokens ==
    << <<";">>, <<"&","&">>, <<"|","|">>, <<Backtick>>, <<"$","(">>,
       <<"s","u","d","o">>, <<"s","u">> >>

redirection_operators ==
    { <<">">>, <<">",">">>, <<"<">>, <<"2",">">>, <<"2",">",">">> }

\* A validation outcome: the accepted text, or the reason of the ValueError
\* with the line and the token its message names.
Accepted(v) ==
    [ok |-> TRUE, reason |-> "Accepted", line |-> 0, token |-> <<>>, value |-> v]

Rejected(reason, lineno, tok) ==
    [ok |-> FALSE, reason |-> reason, line |-> lineno, token |-> tok, value |-> <<>>]

\* the forbidden-path check that knows '~root' alone among the '~' tokens
token_references_forbidden_path_tilde_root_only(tok) ==
    LET tok_clean == StripChars(tok, {Apostrophe, DoubleQuote})
    IN  IF /\ StartsWith(tok_clean, <<"~">>)
           /\ \/ StartsWith(tok_clean, <<"~","r","o","o","t">>)
              \/ tok_clean = <<"~","r","o","o","t">>
        THEN TRUE
        ELSE IF ~StartsWith(tok_clean, <<"/">>) THEN FALSE
        ELSE \E k \in 1..Len(forbidden_path_prefixes) :
                LET pref == forbidden_path_prefixes[k]
                IN  tok_clean = pref \/ StartsWith(tok_clean, pref \o <<"/">>)

\* the forbidden-path check comparing bare prefixes, without the directory
\* boundary
token_references_forbidden_path_no_boundary(tok) ==
    LET tok_clean == StripChars(tok, {Apostrophe, DoubleQuote})
    IN  IF /\ StartsWith(tok_clean, <<"~">>)
           /\ \/ StartsWith(tok_clean, <<"~","r","o","o","t">>)
              \/ tok_clean = <<"~","r","o","o","t">>
              \/ StartsWith(tok_clean, <<"~","/","r","o","o","t">>)
        THEN TRUE
        ELSE IF ~StartsWith(tok_clean, <<"/">>) THEN FALSE
        ELSE \E k \in 1..Len(forbidden_path_prefixes) :
                StartsWith(tok_clean, forbidden_path_prefixes[k])

token_references_forbidden_path(tok) ==
    LET tok_clean == StripChars(tok, {Apostrophe, DoubleQuote})
    IN  IF /\ StartsWith(tok_clean, <<"~">>)
           /\ \/ StartsWith(tok_clean, <<"~","r","o","o","t">>)
              \/ tok_clean = <<"~","r","o","o","t">>
              \/ StartsWith(tok_clean, <<"~","/","r","o","o","t">>)
        THEN TRUE
        ELSE IF ~StartsWith(tok_clean, <<"/">>) THEN FALSE
        ELSE \E k \in 1..Len(forbidden_path_prefixes) :
                LET pref == forbidden_path_prefixes[k]
                IN  tok_clean = pref \/ StartsWith(tok_clean, pref \o <<"/">>)

\* re.match(r'^[A-Za-z_][A-Za-z0-9_]*=', tok)
IsEnvAssignment(tok) ==
    \E k \in 2..Len(tok) :
        /\ tok[k] = "="
        /\ tok[1] \in UpperLetters \cup LowerLetters \cup {"_"}
        /\ \A j \in 2..(k - 1) :
              tok[j] \in UpperLetters \cup LowerLetters \cup Digits \cup {"_"}

\* index of the first token that is not an environment assignment, 0 if none
CommandTokenIndex(tokens) ==
    LET cands == {i \in 1..Len(tokens) : ~IsEnvAssignment(tokens[i])}
    IN  IF cands = {} THEN 0
        ELSE CHOOSE i \in cands : \A j \in cands : i <= j

\* cmd_token.split('/')[-1]
Basename(cmd_token) ==
    LET parts == Split(cmd_token, "/")
    IN  parts[Len(parts)]

\* the while loop over the tokens after the command token
RECURSIVE ScanArguments(_, _, _)
ScanArguments(tokens, i, lineno) ==
    IF i > Len(tokens) THEN Accepted(<<>>)
    ELSE IF tokens[i] \in redirection_operators THEN
        IF i + 1 > Len(tokens)
        THEN Rejected("DanglingRedirect", lineno, tokens[i])
        ELSE IF token_references_forbidden_path(tokens[i + 1])
        THEN Rejected("ForbiddenRedirectTarget", lineno, tokens[i + 1])
        ELSE ScanArguments(tokens, i + 2, lineno)
    ELSE IF token_references_forbidden_path(tokens[i])
    THEN Rejected("ForbiddenPath", lineno, tokens[i])
    ELSE ScanArguments(tokens, i + 1, lineno)

\* the segment loop passing over an empty segment instead of raising
ValidateSegment_allowing_empty(seg, lineno) ==
    IF seg = <<>> THEN Accepted(<<>>)
    ELSE
        LET lexed == ShlexSplit(seg)
            tokens == lexed.tokens
            token_index == CommandTokenIndex(tokens)
            cmd_token == tokens[token_index]
            cmd_basename_l == Lower(Basename(cmd_token))
        IN  IF ~lexed.ok THEN Rejected("UnparsableSegment", lineno, <<>>)
            ELSE IF tokens = <<>> THEN Rejected("NoTokens", lineno, <<>>)
            ELSE IF token_index = 0 THEN Rejected("NoCommand", lineno, <<>>)
            ELSE IF cmd_basename_l \notin allowed_commands
            THEN Rejected("CommandNotAllowed", lineno, cmd_token)
            ELSE ScanArguments(tokens, token_index + 1, lineno)

\* the body of "for seg in segments"
ValidateSegment(seg, lineno) ==
    IF seg = <<>> THEN Rejected("EmptySegment", lineno, <<>>)
    ELSE
        LET lexed == ShlexSplit(seg)
            tokens == lexed.tokens
            token_index == CommandTokenIndex(tokens)
            cmd_token == tokens[token_index]
            cmd_basename_l == Lower(Basename(cmd_token))
        IN  IF ~lexed.ok THEN Rejected("UnparsableSegment", lineno, <<>>)
            ELSE IF tokens = <<>> THEN Rejected("NoTokens", lineno, <<>>)
            ELSE IF token_index = 0 THEN Rejected("NoCommand", lineno, <<>>)
            ELSE IF cmd_basename_l \notin allowed_commands
            THEN Rejected("CommandNotAllowed", lineno, cmd_token)
            ELSE ScanArguments(tokens, token_index + 1, lineno)

RECURSIVE ValidateSegments(_, _)
ValidateSegments(segments, lineno) ==
    IF segments = <<>> THEN Accepted(<<>>)
    ELSE LET r == ValidateSegment(Head(segments), lineno)
         IN  IF ~r.ok THEN r ELSE ValidateSegments(Tail(segments), lineno)

\* the line loop validating only the first segment of a pipeline
ValidateLine_first_segment_only(raw_line, lineno) ==
    LET line == Strip(raw_line)
        pieces == Split(line, "|")
        segments == [k \in 1..Len(pieces) |-> Strip(pieces[k])]
    IN  IF line = <<>> \/ StartsWith(line, <<"#">>) THEN Accepted(<<>>)
        ELSE IF \/ Contains(line, <<";">>)
                \/ Contains(line, <<"&","&">>)
                \/ Contains(line, <<"|","|">>)
        THEN Rejected("ChainingNotAllowed", lineno, <<>>)
        ELSE IF segments = <<>> THEN Rejected("UnparsableLine", lineno, <<>>)
        ELSE ValidateSegment(segments[1], lineno)

\* the body of "for lineno, raw_line in enumerate(v.splitlines(), start=1)"
ValidateLine(raw_line, lineno) ==
    LET line == Strip(raw_line)
        pieces == Split(line, "|")
        segments == [k \in 1..Len(pieces) |-> Strip(pieces[k])]
    IN  IF line = <<>> \/ StartsWith(line, <<"#">>) THEN Accepted(<<>>)
        ELSE IF \/ Contains(line, <<";">>)
                \/ Contains(line, <<"&","&">>)
                \/ Contains(line, <<"|","|">>)
        THEN Rejected("ChainingNotAllowed", lineno, <<>>)
        ELSE IF segments = <<>> THEN Rejected("UnparsableLine", lineno, <<>>)
        ELSE ValidateSegments(segments, lineno)

RECURSIVE ValidateLines(_, _)
ValidateLines(lines, lineno) ==
    IF lines = <<>> THEN Accepted(<<>>)
    ELSE LET r == ValidateLine(Head(lines), lineno)
         IN  IF ~r.ok THEN r ELSE ValidateLines(Tail(lines), lineno + 1)

\* the scan for disallowed constructs leaving comment lines out
FirstDisallowed_skipping_comments(v) ==
    LET lines == SplitLines(Lower(v))
        hits == {k \in 1..Len(disallowed_tokens) :
                    \E i \in 1..Len(lines) :
                        /\ ~StartsWith(Strip(lines[i]), <<"#">>)
                        /\ Contains(lines[i], disallowed_tokens[k])}
    IN  IF hits = {} THEN 0 ELSE CHOOSE k \in hits : \A j \in hits : k <= j

\* the first disallowed construct, in the order of the tuple, found anywhere
\* in the lower-cased text; 0 if none
FirstDisallowed(v) ==
    LET lowered == Lower(v)
        hits == {k \in 1..Len(disallowed_tokens) : Contains(lowered, disallowed_tokens[k])}
    IN  IF hits = {} THEN 0 ELSE CHOOSE k \in hits : \A j \in hits : k <= j

\* validate_allowed_commands without the scan of the whole text
validate_allowed_commands_without_scan(v) ==
    IF v = <<>> THEN Accepted(v)
    ELSE LET r == ValidateLines(SplitLines(v), 1)
         IN  IF r.ok THEN Accepted(v) ELSE r

\* validate_allowed_commands returning the trimmed text
validate_allowed_commands_trimming(v) ==
    IF v = <<>> THEN Accepted(v)
    ELSE IF FirstDisallowed(v) # 0
    THEN Rejected("DisallowedToken", 0, disallowed_tokens[FirstDisallowed(v)])
    ELSE LET r == ValidateLines(SplitLines(v), 1)
         IN  IF r.ok THEN Accepted(Strip(v)) ELSE r

validate_allowed_commands(v) ==
    IF v = <<>> THEN Accepted(v)
    ELSE IF FirstDisallowed(v) # 0
    THEN Rejected("DisallowedToken", 0, disallowed_tokens[FirstDisallowed(v)])
    ELSE LET r == ValidateLines(SplitLines(v), 1)
         IN  IF r.ok THEN Accepted(v) ELSE r

\* normalize_name removing the first space only: value.replace(' ', '', 1)
normalize_name_first_space(value) ==
    LET spaces == {i \in 1..Len(value) : value[i] = " "}
        first == IF spaces = {} THEN 0
                 ELSE CHOOSE i \in spaces : \A j \in spaces : i <= j
    IN  Strip(Lower(IF first = 0 THEN value
                    ELSE SubSeq(value, 1, first - 1)
                            \o SubSeq(value, first + 1, Len(value))))

\* ScriptSchema.normalize_name: value.replace(' ', '').lower().strip()
normalize_name(value) ==
    Strip(Lower(RemoveChar(value, " ")))

(***************************************************************************)
(* The store (server/models.py) and the request handlers (server/views.py).*)
(* Time is counted in minutes.  The audit columns created_at / updated_at  *)
(* of BaseModel are not part of the entities modelled here.                *)
(***************************************************************************)
VARIABLES
    machines,   \* table machine: id -> [name, last_seen]
    scripts,    \* table script: name -> content
    commands,   \* table command: the row with id i is commands[i]
    now,        \* the server clock, utc_now()
    resp,       \* the request handled last and its response
    agent,      \* the agent process of machine AgentId (agent.py)
    executed,   \* history: what the agent passed to subprocess.run, in order
    inflight,   \* requests whose handler has read but not yet committed
    request,    \* a request body {name, content} for ScriptSchema
    parsed      \* the ScriptSchema built from it: the fields' validators applied

vars ==
    <<machines, scripts, commands, now, resp, agent, executed, inflight, request, parsed>>

storeVars ==
    <<machines, scripts, commands>>

\* ---- bounds of the exploration ----
MaxTime ==
    1

MaxCommands ==
    2

\* minutes the clock runs when the liveness window is explored
MaxClock ==
    7

\* requests the server handles at the same time
MaxWorkers ==
    2

\* executions of the agent that are recorded
MaxExecuted ==
    3

\* ---- inputs of the requests ----
MachineIds ==
    {"m1", "m2"}

MachineNames ==
    {"alpha", "beta"}

NameDiag ==
    <<"d","i","a","g">>

NameDiagRaw ==
    <<"D","i"," ","a","g">>

ScriptNames ==
    {NameDiag, NameDiagRaw}

NameInfo ==
    <<"i","n","f","o">>

\* two scripts side by side
DispatchNames ==
    {NameDiag, NameInfo}

ContentUname ==
    <<"u","n","a","m","e"," ","-","a">>

ContentLs ==
    <<"l","s">>

ContentEmpty ==
    <<>>

ContentRm ==
    <<"r","m"," ","-","r","f"," ","/">>

ScriptContents ==
    {ContentUname, ContentLs, ContentEmpty, ContentRm}

\* the scripts the operator submits: two that differ and one that is refused
DispatchScripts ==
    {[name |-> NameDiag, content |-> ContentUname],
     [name |-> NameInfo, content |-> ContentLs],
     [name |-> NameInfo, content |-> ContentRm]}

OutputOk ==
    [stdout |-> "Linux", stderr |-> "", returncode |-> 0]

OutputTimeout ==
    [stdout |-> "", stderr |-> "TimeoutExpired", returncode |-> 1]

Outputs ==
    {OutputOk, OutputTimeout}

\* the machine the agent process runs on
AgentId ==
    "m1"

ServerUrl ==
    "http://server"

\* how subprocess.run(command, shell=True, timeout=60) can end: a completed
\* process, TimeoutExpired, or any other exception
ExecutionOutcomes ==
    {"completed", "timeout", "error"}

Workers ==
    1..MaxWorkers

CommandIds ==
    1..(MaxCommands + 1)

\* the validator and the normalisation on the inputs, evaluated once
Validated ==
    [v \in ScriptContents |-> validate_allowed_commands(v)]

Normalized ==
    [n \in ScriptNames \cup DispatchNames
              \cup {normalize_name(m) : m \in ScriptNames \cup DispatchNames}
        |-> normalize_name(n)]

\* ---- program constants ----
\* datetime.timedelta(minutes=5) of list_machines
liveness_window ==
    5

\* the rows post_init_database puts into command_status_reference
command_status ==
    {"pending", "completed"}

HTTP_200_OK ==
    200

HTTP_404_NOT_FOUND ==
    404

HTTP_409_CONFLICT ==
    409

HTTP_422_UNPROCESSABLE ==
    422

\* Python None / SQL NULL / JSON null
None ==
    [none |-> TRUE]

\* normalize_output returning None as it is, as the except branch would
normalize_output_passing_none(value) ==
    IF value = None THEN None ELSE [json |-> value]

\* CommandResultSchema.normalize_output: json.dumps(value), the JSON text of
\* the value, which is a str even for None
normalize_output(value) ==
    [json |-> value]

Response(op, status, body) ==
    [op |-> op, status |-> status, body |-> body]

\* session.scalar(select(model).filter(column == id_)): the row or nothing
MachineExists(id) ==
    id \in DOMAIN machines

ScriptExists(name) ==
    name \in DOMAIN scripts

CommandExists(id) ==
    id \in 1..Len(commands)

\* ScriptResponseSchema / ScriptSchema of a stored row: the field validators
\* run again on the way out
ScriptBody(name) ==
    [name |-> Normalized[name], content |-> Validated[scripts[name]].value]

\* CommandResponseSchema of a stored row
CommandBody(id) ==
    [id |-> id,
     machine_id |-> commands[id].machine_id,
     script_name |-> commands[id].script_name,
     status |-> commands[id].status,
     script |-> ScriptBody(commands[id].script_name),
     output |-> commands[id].output]

\* MachineResponseSchema of a stored row
MachineBody(id) ==
    [id |-> id, name |-> machines[id].name, last_seen |-> machines[id].last_seen]

Init ==
    /\ machines = << >>
    /\ scripts = << >>
    /\ commands = << >>
    /\ now = 0
    /\ resp = Response("init", 0, None)
    /\ agent = [pc |-> "stopped", config |-> None, registered |-> FALSE,
                server_url |-> "", agent_id |-> "", status |-> 0,
                batch |-> << >>, result |-> None,
                wake |-> None, ran |-> 0]
    /\ executed = << >>
    /\ inflight = [w \in Workers |-> None]
    /\ request = None
    /\ parsed = None

\* Each handler below is the whole request: what it commits to the three
\* tables and what it answers.  storeVars and resp are all it touches.


\* list_machines with a strict comparison against the deadline
list_machines_strict ==
    LET deadline == now - liveness_window
        active == {id \in DOMAIN machines : machines[id].last_seen > deadline}
    IN  /\ resp' = Response("list_machines", HTTP_200_OK,
                            {MachineBody(id) : id \in active})
        /\ UNCHANGED <<machines, scripts, commands>>

\* GET /machines
list_machines ==
    LET deadline == now - liveness_window
        active == {id \in DOMAIN machines : machines[id].last_seen >= deadline}
    IN  /\ resp' = Response("list_machines", HTTP_200_OK,
                            {MachineBody(id) : id \in active})
        /\ UNCHANGED <<machines, scripts, commands>>


\* create_update_machine whose update branch leaves last_seen as it was
create_update_machine_stale(id, name) ==
    /\ machines' = IF ~MachineExists(id)
                   THEN [m \in DOMAIN machines \cup {id} |->
                            IF m = id THEN [name |-> name, last_seen |-> now]
                            ELSE machines[m]]
                   ELSE [machines EXCEPT ![id].name = name]
    /\ resp' = Response("create_update_machine", HTTP_200_OK,
                        [id |-> id, name |-> name, last_seen |-> now])
    /\ UNCHANGED <<scripts, commands>>

\* POST /register_machine
create_update_machine(id, name) ==
    /\ machines' = IF ~MachineExists(id)
                   THEN [m \in DOMAIN machines \cup {id} |->
                            IF m = id THEN [name |-> name, last_seen |-> now]
                            ELSE machines[m]]
                   ELSE [machines EXCEPT ![id] = [name |-> name, last_seen |-> now]]
    /\ resp' = Response("create_update_machine", HTTP_200_OK,
                        [id |-> id, name |-> name, last_seen |-> now])
    /\ UNCHANGED <<scripts, commands>>


\* the commit of create_script on a table without the primary key: the row
\* of the later call replaces the stored one
create_script_commit_overwriting(new_script) ==
    /\ scripts' = [n \in DOMAIN scripts \cup {new_script.name} |->
                      IF n = new_script.name THEN new_script.content
                      ELSE scripts[n]]
    /\ resp' = Response("create_script", HTTP_200_OK, new_script)

\* session.add(new_script) followed by session.commit(): the primary key
\* decides between the insert and the IntegrityError
create_script_commit(new_script) ==
    IF ScriptExists(new_script.name)
    THEN \* IntegrityError on commit, rolled back
         /\ resp' = Response("create_script", HTTP_409_CONFLICT, new_script.name)
         /\ UNCHANGED scripts
    ELSE /\ scripts' = [n \in DOMAIN scripts \cup {new_script.name} |->
                           IF n = new_script.name THEN new_script.content
                           ELSE scripts[n]]
         /\ resp' = Response("create_script", HTTP_200_OK, new_script)


\* create_script with the content validator left out of the request model
create_script_unvalidated(name, content) ==
    /\ create_script_commit([name |-> Normalized[name], content |-> content])
    /\ UNCHANGED <<machines, commands>>

\* POST /scripts
create_script(name, content) ==
    LET key == Normalized[name]
        checked == Validated[content]
    IN  /\ IF ~checked.ok
           THEN \* the request model is rejected before the handler runs
                /\ resp' = Response("create_script", HTTP_422_UNPROCESSABLE, checked)
                /\ UNCHANGED scripts
           ELSE create_script_commit([name |-> key, content |-> checked.value])
        /\ UNCHANGED <<machines, commands>>


\* schedule_machine_command without the lookup of the script
schedule_without_script_lookup(machine_id, script_name) ==
    /\ IF ~MachineExists(machine_id)
       THEN /\ resp' = Response("schedule_machine_command", HTTP_404_NOT_FOUND, "Machine")
            /\ UNCHANGED commands
       ELSE /\ commands' = Append(commands, [machine_id |-> machine_id,
                                             script_name |-> script_name,
                                             status |-> "pending",
                                             output |-> None])
            /\ resp' = Response("schedule_machine_command", HTTP_200_OK,
                                [id |-> Len(commands) + 1,
                                 machine_id |-> machine_id,
                                 script_name |-> script_name,
                                 status |-> "pending",
                                 output |-> None])
    /\ UNCHANGED <<machines, scripts>>

\* schedule_machine_command looking the script up under the normalised name
schedule_machine_command_normalizing(machine_id, script_name) ==
    /\ IF ~MachineExists(machine_id)
       THEN /\ resp' = Response("schedule_machine_command", HTTP_404_NOT_FOUND, "Machine")
            /\ UNCHANGED commands
       ELSE IF ~ScriptExists(Normalized[script_name])
       THEN /\ resp' = Response("schedule_machine_command", HTTP_404_NOT_FOUND, "Script")
            /\ UNCHANGED commands
       ELSE LET new_command == [machine_id |-> machine_id,
                                script_name |-> Normalized[script_name],
                                status |-> "pending",
                                output |-> None]
            IN  /\ commands' = Append(commands, new_command)
                /\ resp' = Response("schedule_machine_command", HTTP_200_OK,
                                    [id |-> Len(commands) + 1,
                                     machine_id |-> machine_id,
                                     script_name |-> Normalized[script_name],
                                     status |-> "pending",
                                     script |-> ScriptBody(Normalized[script_name]),
                                     output |-> None])
    /\ UNCHANGED <<machines, scripts>>

\* POST /execute
schedule_machine_command(machine_id, script_name) ==
    /\ IF ~MachineExists(machine_id)
       THEN /\ resp' = Response("schedule_machine_command", HTTP_404_NOT_FOUND, "Machine")
            /\ UNCHANGED commands
       ELSE IF ~ScriptExists(script_name)
       THEN /\ resp' = Response("schedule_machine_command", HTTP_404_NOT_FOUND, "Script")
            /\ UNCHANGED commands
       ELSE LET new_command == [machine_id |-> machine_id,
                                script_name |-> script_name,
                                status |-> "pending",
                                output |-> None]
            IN  /\ commands' = Append(commands, new_command)
                /\ resp' = Response("schedule_machine_command", HTTP_200_OK,
                                    [id |-> Len(commands) + 1,
                                     machine_id |-> machine_id,
                                     script_name |-> script_name,
                                     status |-> "pending",
                                     script |-> ScriptBody(script_name),
                                     output |-> None])
    /\ UNCHANGED <<machines, scripts>>


\* the select of list_pending_commands without the filter on the status
PendingCommandsAnyStatus(machine_id) ==
    {CommandBody(id) : id \in {i \in 1..Len(commands) :
                                  commands[i].machine_id = machine_id}}

\* the select of list_pending_commands without the filter on the machine
PendingCommandsAnyMachine(machine_id) ==
    {CommandBody(id) : id \in {i \in 1..Len(commands) :
                                  commands[i].status = "pending"}}

\* the rows list_pending_commands selects, as response records
PendingCommands(machine_id) ==
    {CommandBody(id) : id \in {i \in 1..Len(commands) :
                                  /\ commands[i].machine_id = machine_id
                                  /\ commands[i].status = "pending"}}

\* GET /commands/{machine_id}
list_pending_commands(machine_id) ==
    /\ IF ~MachineExists(machine_id)
       THEN /\ resp' = Response("list_pending_commands", HTTP_404_NOT_FOUND, "Machine")
            /\ UNCHANGED machines
       ELSE /\ machines' = [machines EXCEPT ![machine_id].last_seen = now]
            /\ resp' = Response("list_pending_commands", HTTP_200_OK,
                                PendingCommands(machine_id))
    /\ UNCHANGED <<scripts, commands>>


\* store_command_result flipping the status instead of setting it
store_command_result_toggling(command_id, output) ==
    /\ IF ~CommandExists(command_id)
       THEN /\ resp' = Response("store_command_result", HTTP_404_NOT_FOUND, "Command")
            /\ UNCHANGED commands
       ELSE /\ commands' = [commands EXCEPT
                              ![command_id].output = normalize_output(output),
                              ![command_id].status =
                                  IF commands[command_id].status = "pending"
                                  THEN "completed" ELSE "pending"]
            /\ resp' = Response("store_command_result", HTTP_200_OK, None)
    /\ UNCHANGED <<machines, scripts>>

\* POST /commands/{command_id}/result
store_command_result(command_id, output) ==
    /\ IF ~CommandExists(command_id)
       THEN /\ resp' = Response("store_command_result", HTTP_404_NOT_FOUND, "Command")
            /\ UNCHANGED commands
       ELSE /\ commands' = [commands EXCEPT
                              ![command_id].output = normalize_output(output),
                              ![command_id].status = "completed"]
            \* the handler ends without a return statement: the body is null
            /\ resp' = Response("store_command_result", HTTP_200_OK, None)
    /\ UNCHANGED <<machines, scripts>>

(***************************************************************************)
(* Requests made by the operator, handled one at a time.                   *)
(***************************************************************************)
ListMachinesStep ==
    /\ list_machines
    /\ UNCHANGED <<now, agent, executed, inflight, request, parsed>>

RegisterStep ==
    /\ \E id \in MachineIds, name \in MachineNames : create_update_machine(id, name)
    /\ UNCHANGED <<now, agent, executed, inflight, request, parsed>>

CreateScriptStep ==
    /\ \E name \in ScriptNames, content \in ScriptContents : create_script(name, content)
    /\ UNCHANGED <<now, agent, executed, inflight, request, parsed>>

ScheduleStep ==
    /\ Len(commands) < MaxCommands
    /\ \E id \in MachineIds, name \in ScriptNames : schedule_machine_command(id, name)
    /\ UNCHANGED <<now, agent, executed, inflight, request, parsed>>

ListPendingStep ==
    /\ \E id \in MachineIds : list_pending_commands(id)
    /\ UNCHANGED <<now, agent, executed, inflight, request, parsed>>

CompleteStep ==
    /\ \E id \in CommandIds, output \in Outputs : store_command_result(id, output)
    /\ UNCHANGED <<now, agent, executed, inflight, request, parsed>>

\* a minute passes, up to the minute limit
Tick(limit) ==
    /\ now < limit
    /\ now' = now + 1
    /\ resp' = Response("tick", 0, None)
    /\ UNCHANGED <<machines, scripts, commands, agent, executed, inflight, request, parsed>>

TickStep ==
    Tick(MaxTime)

\* the handlers run one at a time, each as one transaction
Next ==
    \/ ListMachinesStep
    \/ RegisterStep
    \/ CreateScriptStep
    \/ ScheduleStep
    \/ ListPendingStep
    \/ CompleteStep
    \/ TickStep

Spec ==
    Init /\ [][Next]_vars

(***************************************************************************)
(* The agent process (agent.py).  agent.pc is its position: "stopped" (no  *)
(* process), "fetch" (about to poll), "handle" (in the for loop over the   *)
(* fetched batch), "report" (a result is about to be sent), "sleep", and   *)
(* "crashed" (main ended with an exception).  agent.status is the status   *)
(* make_request returned last, 0 when the request raised.  delivered says  *)
(* whether a request reaches the server and its answer the agent.          *)
(* agent.config is the content of /etc/agent/config.json, None when there  *)
(* is no file; agent.server_url and agent.agent_id are the locals of main; *)
(* agent.registered is what register_agent returned last.  agent.wake is   *)
(* [at |-> t] until asyncio.sleep returns at t, None otherwise; agent.ran  *)
(* is the number of the last execution that ran into its timeout.         *)
(***************************************************************************)
AgentRunning ==
    agent.pc \in {"fetch", "handle", "report", "sleep"}

\* all orders in which a set of at most MaxCommands + 1 rows can be listed
Orderings(S) ==
    {q \in UNION {[1..n -> S] : n \in {Cardinality(S)}} :
        \A i, j \in 1..Len(q) : i # j => q[i] # q[j]}

\* the configuration register_agent writes
ConfigContent(name) ==
    [server_url |-> ServerUrl, agent_id |-> AgentId, agent_name |-> name,
     interval |-> 300]

\* register_agent writing the configuration file whatever the status
AgentRegister_persisting_always(deliveries, writes) ==
    /\ agent.pc \in {"stopped", "crashed"}
    /\ \E name \in MachineNames, delivered \in deliveries, written \in writes :
          IF delivered
          THEN /\ create_update_machine(AgentId, name)
               /\ agent' = [agent EXCEPT
                               !.status = HTTP_200_OK,
                               !.registered = written,
                               !.config = IF written THEN ConfigContent(name)
                                          ELSE agent.config]
          ELSE /\ agent' = [agent EXCEPT
                               !.status = 0,
                               !.registered = FALSE,
                               !.config = IF written THEN ConfigContent(name)
                                          ELSE agent.config]
               /\ UNCHANGED <<machines, scripts, commands, resp>>
    /\ UNCHANGED <<now, executed, inflight, request, parsed>>

\* agent.py register: register_agent, which opens and writes the
\* configuration file only when the server answered 200, and returns True
\* only when the file was written; main prints the outcome and ends
AgentRegister(deliveries, writes) ==
    /\ agent.pc \in {"stopped", "crashed"}
    /\ \E name \in MachineNames, delivered \in deliveries, written \in writes :
          IF delivered
          THEN /\ create_update_machine(AgentId, name)
               /\ agent' = [agent EXCEPT
                               !.status = HTTP_200_OK,
                               !.registered = written,
                               !.config = IF written THEN ConfigContent(name)
                                          ELSE agent.config]
          ELSE /\ agent' = [agent EXCEPT !.status = 0, !.registered = FALSE]
               /\ UNCHANGED <<machines, scripts, commands, resp>>
    /\ UNCHANGED <<now, executed, inflight, request, parsed>>

\* load_config: the content of the file, the empty dict when there is none
load_config ==
    IF agent.config = None THEN [k \in {} |-> ""] ELSE agent.config

\* agent.py without a subcommand: load_config, config.get('server_url', ''),
\* then config['agent_id'], which raises KeyError when the key is missing
AgentStart ==
    /\ agent.pc \in {"stopped", "crashed"}
    /\ LET config == load_config
       IN  agent' = IF "agent_id" \notin DOMAIN config
                    THEN [agent EXCEPT !.pc = "crashed"]
                    ELSE [agent EXCEPT
                             !.pc = "fetch",
                             !.server_url = IF "server_url" \in DOMAIN config
                                            THEN config.server_url ELSE "",
                             !.agent_id = config.agent_id,
                             !.batch = << >>,
                             !.result = None]
    /\ UNCHANGED <<machines, scripts, commands, now, resp, executed, inflight, request, parsed>>

\* check_pending_commands: the list of the answer if the status is 200,
\* the empty list otherwise
AgentFetch(deliveries) ==
    /\ agent.pc = "fetch"
    /\ \E delivered \in deliveries :
          IF delivered /\ agent.server_url = ServerUrl
          THEN /\ list_pending_commands(agent.agent_id)
               /\ \E batch \in (IF resp'.status = HTTP_200_OK
                                THEN Orderings(resp'.body) ELSE {<< >>}) :
                     agent' = [agent EXCEPT !.pc = "handle",
                                            !.status = resp'.status,
                                            !.batch = batch]
          ELSE /\ agent' = [agent EXCEPT !.pc = "handle", !.status = 0,
                                         !.batch = << >>]
               /\ UNCHANGED <<machines, scripts, commands, resp>>
    /\ UNCHANGED <<now, executed, inflight, request, parsed>>

\* one iteration of "for cmd_response in commands_response", up to the call
\* of send_command_result; the end of the loop leads to the sleep
AgentHandle(outcomes) ==
    /\ agent.pc = "handle"
    /\ IF agent.batch = << >>
       THEN /\ agent' = [agent EXCEPT !.pc = "sleep"]
            /\ UNCHANGED executed
       ELSE LET cmd_response == Head(agent.batch)
                cmd_id == cmd_response.id
                cmd == cmd_response.script.content
            IN  IF cmd_id # 0 /\ cmd # << >>
                THEN \* execute_command
                     /\ Len(executed) < MaxExecuted
                     /\ executed' = Append(executed, [id |-> cmd_id, command |-> cmd])
                     /\ \E outcome \in outcomes :
                           \/ /\ outcome = "completed"
                              /\ agent' = [agent EXCEPT
                                              !.pc = "report",
                                              !.result = [command_id |-> cmd_id,
                                                          output |-> OutputOk]]
                           \/ /\ outcome = "timeout"
                              /\ agent' = [agent EXCEPT
                                              !.pc = "report",
                                              !.result = [command_id |-> cmd_id,
                                                          output |-> OutputTimeout]]
                           \/ /\ outcome = "error"
                              /\ agent' = [agent EXCEPT !.batch = Tail(agent.batch)]
                ELSE /\ agent' = [agent EXCEPT !.batch = Tail(agent.batch)]
                     /\ UNCHANGED executed
    /\ UNCHANGED <<machines, scripts, commands, now, resp, inflight, request, parsed>>

\* send_command_result after which a failed report ends the handling of the
\* batch
AgentReport_stopping_on_failure(deliveries) ==
    /\ agent.pc = "report"
    /\ \E delivered \in deliveries :
          IF delivered /\ agent.server_url = ServerUrl
          THEN /\ store_command_result(agent.result.command_id, agent.result.output)
               /\ agent' = [agent EXCEPT !.pc = "handle",
                                         !.status = resp'.status,
                                         !.batch = Tail(agent.batch),
                                         !.result = None]
          ELSE /\ agent' = [agent EXCEPT !.pc = "handle", !.status = 0,
                                         !.batch = << >>,
                                         !.result = None]
               /\ UNCHANGED <<machines, scripts, commands, resp>>
    /\ UNCHANGED <<now, executed, inflight, request, parsed>>

\* send_command_result: whatever the status, the loop goes on
AgentReport(deliveries) ==
    /\ agent.pc = "report"
    /\ \E delivered \in deliveries :
          IF delivered /\ agent.server_url = ServerUrl
          THEN /\ store_command_result(agent.result.command_id, agent.result.output)
               /\ agent' = [agent EXCEPT !.pc = "handle",
                                         !.status = resp'.status,
                                         !.batch = Tail(agent.batch),
                                         !.result = None]
          ELSE /\ agent' = [agent EXCEPT !.pc = "handle", !.status = 0,
                                         !.batch = Tail(agent.batch),
                                         !.result = None]
               /\ UNCHANGED <<machines, scripts, commands, resp>>
    /\ UNCHANGED <<now, executed, inflight, request, parsed>>

\* asyncio.sleep(interval) returns
AgentSleep ==
    /\ agent.pc = "sleep"
    /\ agent' = [agent EXCEPT !.pc = "fetch"]
    /\ UNCHANGED <<machines, scripts, commands, now, resp, executed, inflight, request, parsed>>

AgentRegisterStep ==
    AgentRegister(BOOLEAN, BOOLEAN)

AgentFetchStep ==
    AgentFetch(BOOLEAN)

AgentHandleStep ==
    AgentHandle(ExecutionOutcomes)

AgentReportStep ==
    AgentReport(BOOLEAN)

\* the operator's requests and the agent of machine AgentId, with a network
\* that may lose requests
NextAgent ==
    \/ RegisterStep
    \/ CreateScriptStep
    \/ ScheduleStep
    \/ AgentRegisterStep
    \/ AgentStart
    \/ AgentFetchStep
    \/ AgentHandleStep
    \/ AgentReportStep
    \/ AgentSleep

SpecAgent ==
    Init /\ [][NextAgent]_vars

\* the same, with a network that delivers every request and commands that
\* end or time out; the agent loop, once started, keeps taking its steps
AgentLoop ==
    \/ AgentFetch({TRUE})
    \/ AgentHandle({"completed", "timeout"})
    \/ AgentReport({TRUE})
    \/ AgentSleep

NextAgentLive ==
    \/ RegisterStep
    \/ CreateScriptStep
    \/ ScheduleStep
    \/ AgentRegister({TRUE}, {TRUE})
    \/ AgentStart
    \/ AgentLoop

SpecAgentLive ==
    Init /\ [][NextAgentLive]_vars /\ WF_vars(AgentLoop)

(***************************************************************************)
(* The agent and what it is given: the configuration file it finds at      *)
(* startup, and answers to its poll that are not the list of commands.     *)
(***************************************************************************)
\* the contents /etc/agent/config.json can have when main starts: no file,
\* what register_agent wrote, or a file without one of the keys
ConfigFiles ==
    {None}
        \cup {ConfigContent(name) : name \in MachineNames}
        \cup {[agent_id |-> AgentId, agent_name |-> "alpha", interval |-> 300],
              [server_url |-> ServerUrl, agent_name |-> "alpha", interval |-> 300]}

\* the file is put in place, edited or removed while no agent runs
ProvisionConfig ==
    /\ agent.pc \in {"stopped", "crashed"}
    /\ \E file \in ConfigFiles : agent' = [agent EXCEPT !.config = file]
    /\ UNCHANGED <<machines, scripts, commands, now, resp, executed, inflight, request, parsed>>

\* check_pending_commands on an answer with status 200 whose body is not a
\* JSON list of commands: make_request returns (200, None) when the body is
\* missing or not JSON, and the data as parsed otherwise; check_pending_commands
\* returns it, and the for loop of main over it, or the .get on its items,
\* raises out of main
AgentFetchMalformed ==
    /\ agent.pc = "fetch"
    /\ agent.server_url = ServerUrl
    /\ agent' = [agent EXCEPT !.pc = "crashed", !.status = HTTP_200_OK,
                              !.batch = << >>]
    /\ UNCHANGED <<machines, scripts, commands, now, resp, executed, inflight, request, parsed>>

\* the agent, the operator and a network that may lose requests or answer
\* the poll with something else than the server's list
NextAgentFaults ==
    \/ RegisterStep
    \/ CreateScriptStep
    \/ ScheduleStep
    \/ AgentRegisterStep
    \/ AgentStart
    \/ AgentFetchStep
    \/ AgentFetchMalformed
    \/ AgentHandleStep
    \/ AgentReportStep
    \/ AgentSleep

SpecAgentFaults ==
    Init /\ [][NextAgentFaults]_vars

\* registration and startup of the agent, with any configuration file
NextStartup ==
    \/ RegisterStep
    \/ ProvisionConfig
    \/ AgentRegisterStep
    \/ AgentStart
    \/ AgentFetchStep
    \/ AgentHandleStep
    \/ AgentSleep

SpecStartup ==
    Init /\ [][NextStartup]_vars

(***************************************************************************)
(* The liveness window: the handlers that read or write the machine table, *)
(* with a clock that runs past the window.                                 *)
(***************************************************************************)
TickWindow ==
    Tick(MaxClock)

NextWindow ==
    \/ ListMachinesStep
    \/ RegisterStep
    \/ ListPendingStep
    \/ TickWindow

SpecWindow ==
    Init /\ [][NextWindow]_vars

(***************************************************************************)
(* Concurrent requests: a create_script handler that has built its Script  *)
(* row and not yet committed is in flight on a worker while other requests *)
(* are handled.                                                            *)
(***************************************************************************)
\* the request model is validated and the handler runs up to the commit
BeginCreateScript(w, name, content) ==
    LET key == Normalized[name]
        checked == Validated[content]
    IN  /\ inflight[w] = None
        /\ IF ~checked.ok
           THEN /\ resp' = Response("create_script", HTTP_422_UNPROCESSABLE, checked)
                /\ UNCHANGED inflight
           ELSE /\ inflight' = [inflight EXCEPT ![w] =
                                   [op |-> "create_script",
                                    new_script |-> [name |-> key,
                                                    content |-> checked.value]]]
                /\ UNCHANGED resp
        /\ UNCHANGED <<machines, scripts, commands, now, agent, executed, request, parsed>>

\* session.commit() of the handler in flight on worker w
CommitCreateScript(w) ==
    /\ inflight[w] # None
    /\ inflight[w].op = "create_script"
    /\ create_script_commit(inflight[w].new_script)
    /\ inflight' = [inflight EXCEPT ![w] = None]
    /\ UNCHANGED <<machines, commands, now, agent, executed, request, parsed>>

BeginCreateScriptStep ==
    \E w \in Workers, name \in ScriptNames, content \in ScriptContents :
        BeginCreateScript(w, name, content)

CommitCreateScriptStep ==
    \E w \in Workers : CommitCreateScript(w)

NextConcurrent ==
    \/ BeginCreateScriptStep
    \/ CommitCreateScriptStep
    \/ RegisterStep
    \/ ScheduleStep
    \/ CompleteStep

SpecConcurrent ==
    Init /\ [][NextConcurrent]_vars

(***************************************************************************)
(* Races between requests on the same row.  Every request has its own      *)
(* Session: the handler reads the row, changes its copy and commits, and   *)
(* other requests commit in between.  inflight[w] keeps what the handler   *)
(* on worker w has read (the loaded row, the clock) until its commit.  On  *)
(* commit the Session inserts a pending object, and for a loaded object it *)
(* writes the attributes whose value differs from the loaded one.          *)
(***************************************************************************)
\* an exception no handler catches is answered by the server with this
HTTP_500_INTERNAL_SERVER_ERROR ==
    500

\* create_update_machine up to the commit: the select, the clock, and the
\* new Machine or the assignments to the loaded one
BeginRegister(w, id, name) ==
    /\ inflight[w] = None
    /\ inflight' = [inflight EXCEPT ![w] =
                       [op |-> "create_update_machine",
                        model |-> [id |-> id, name |-> name],
                        existing_machine |->
                            IF MachineExists(id) THEN machines[id] ELSE None,
                        now |-> now]]
    /\ UNCHANGED <<machines, scripts, commands, now, resp, agent, executed,
                   request, parsed>>

\* session.commit() and session.refresh() of create_update_machine
CommitRegister(w) ==
    LET call == inflight[w]
        id == call.model.id
        loaded == call.existing_machine
    IN  /\ call # None
        /\ call.op = "create_update_machine"
        /\ IF loaded = None
           THEN \* INSERT of new_machine
                IF MachineExists(id)
                THEN \* the primary key is taken: IntegrityError, not caught
                     /\ resp' = Response("create_update_machine",
                                         HTTP_500_INTERNAL_SERVER_ERROR, None)
                     /\ UNCHANGED machines
                ELSE /\ machines' = [m \in DOMAIN machines \cup {id} |->
                                        IF m = id
                                        THEN [name |-> call.model.name,
                                              last_seen |-> call.now]
                                        ELSE machines[m]]
                     /\ resp' = Response("create_update_machine", HTTP_200_OK,
                                         [id |-> id, name |-> call.model.name,
                                          last_seen |-> call.now])
           ELSE \* UPDATE of the columns whose value was changed
                /\ machines' = [machines EXCEPT
                       ![id].name = IF call.model.name # loaded.name
                                    THEN call.model.name ELSE @,
                       ![id].last_seen = IF call.now # loaded.last_seen
                                         THEN call.now ELSE @]
                /\ resp' = Response("create_update_machine", HTTP_200_OK,
                                    [id |-> id, name |-> machines'[id].name,
                                     last_seen |-> machines'[id].last_seen])
        /\ inflight' = [inflight EXCEPT ![w] = None]
        /\ UNCHANGED <<scripts, commands, now, agent, executed, request, parsed>>

\* store_command_result up to the commit: the lookup of the Command and the
\* assignments to the loaded object
BeginComplete(w, command_id, output) ==
    /\ inflight[w] = None
    /\ IF ~CommandExists(command_id)
       THEN /\ resp' = Response("store_command_result", HTTP_404_NOT_FOUND, "Command")
            /\ UNCHANGED inflight
       ELSE /\ inflight' = [inflight EXCEPT ![w] =
                               [op |-> "store_command_result",
                                command_id |-> command_id,
                                output |-> normalize_output(output),
                                existing_command |->
                                    [output |-> commands[command_id].output,
                                     status |-> commands[command_id].status]]]
            /\ UNCHANGED resp
    /\ UNCHANGED <<machines, scripts, commands, now, agent, executed,
                   request, parsed>>

\* session.commit() and session.refresh() of store_command_result
CommitComplete(w) ==
    LET call == inflight[w]
        loaded == call.existing_command
    IN  /\ call # None
        /\ call.op = "store_command_result"
        /\ commands' = [commands EXCEPT
               ![call.command_id].output = IF call.output # loaded.output
                                           THEN call.output ELSE @,
               ![call.command_id].status = IF loaded.status # "completed"
                                           THEN "completed" ELSE @]
        /\ resp' = Response("store_command_result", HTTP_200_OK, None)
        /\ inflight' = [inflight EXCEPT ![w] = None]
        /\ UNCHANGED <<machines, scripts, now, agent, executed, request, parsed>>

BeginRegisterStep ==
    \E w \in Workers, id \in MachineIds, name \in MachineNames :
        BeginRegister(w, id, name)

CommitRegisterStep ==
    \E w \in Workers : CommitRegister(w)

BeginCompleteStep ==
    \E w \in Workers, id \in CommandIds, output \in Outputs :
        BeginComplete(w, id, output)

CommitCompleteStep ==
    \E w \in Workers : CommitComplete(w)

\* the one script the commands of this exploration run
CreateDiagScriptStep ==
    /\ create_script(NameDiag, ContentLs)
    /\ UNCHANGED <<now, agent, executed, inflight, request, parsed>>

NextRaces ==
    \/ BeginRegisterStep
    \/ CommitRegisterStep
    \/ BeginCompleteStep
    \/ CommitCompleteStep
    \/ CreateDiagScriptStep
    \/ ScheduleStep
    \/ TickStep

SpecRaces ==
    Init /\ [][NextRaces]_vars

(***************************************************************************)
(* The agent handling its batches: one script, commands scheduled for the  *)
(* agent's machine, a network that may lose any request, and executions    *)
(* that end, time out or raise.                                            *)
(***************************************************************************)
ScheduleDiagStep ==
    /\ Len(commands) < MaxCommands
    /\ schedule_machine_command(AgentId, NameDiag)
    /\ UNCHANGED <<now, agent, executed, inflight, request, parsed>>

NextBatch ==
    \/ CreateDiagScriptStep
    \/ ScheduleDiagStep
    \/ AgentRegister({TRUE}, {TRUE})
    \/ AgentStart
    \/ AgentFetchStep
    \/ AgentHandleStep
    \/ AgentReportStep
    \/ AgentSleep

SpecBatch ==
    Init /\ [][NextBatch]_vars

(***************************************************************************)
(* Registration mode (agent.py register): the identity and the name are    *)
(* asked of dmidecode and hostname, each through subprocess.run with       *)
(* check=True, and register_agent is called with what they gave.           *)
(***************************************************************************)
\* how the query can end: the program prints something, prints nothing,
\* exits with a non-zero status (CalledProcessError), or there is no such
\* program (FileNotFoundError)
QueryOutcomes ==
    {"output", "empty", "error", "absent"}

\* what dmidecode -s system-uuid prints on the agent's machine
SystemUuid ==
    AgentId

\* str(uuid.uuid4())
RandomUuid ==
    "uuid4"

\* what hostname prints
Hostname ==
    "alpha"

\* 'agent-' and the first five characters of a uuid4
RandomName ==
    "agent-uuid4"

\* the value a function returned, or that it raised
Returned(value) ==
    [raised |-> FALSE, value |-> value]

Raised ==
    [raised |-> TRUE, value |-> ""]

\* a missing program raises FileNotFoundError, which is no
\* CalledProcessError and leaves the function
get_or_create_agent_uuid(outcome) ==
    IF outcome = "output" THEN Returned(SystemUuid)
    ELSE IF outcome \in {"empty", "error"} THEN Returned(RandomUuid)
    ELSE Raised

get_or_create_agent_name(outcome) ==
    IF outcome = "output" THEN Returned(Hostname)
    ELSE IF outcome \in {"empty", "error"} THEN Returned(RandomName)
    ELSE Raised

\* register_agent(session, server_url, agent_id, agent_name)
register_agent(agent_id, agent_name, delivered, written) ==
    IF delivered
    THEN /\ create_update_machine(agent_id, agent_name)
         /\ agent' = [agent EXCEPT
                         !.pc = "stopped",
                         !.status = HTTP_200_OK,
                         !.registered = written,
                         !.config = IF written
                                    THEN [ConfigContent(agent_name) EXCEPT
                                             !.agent_id = agent_id]
                                    ELSE agent.config]
    ELSE /\ agent' = [agent EXCEPT !.pc = "stopped", !.status = 0,
                                   !.registered = FALSE]
         /\ UNCHANGED <<machines, scripts, commands, resp>>

\* main with the register subcommand: an exception of one of the two
\* queries ends main before register_agent is called
AgentRegisterCommand(uuid_outcomes, name_outcomes, deliveries, writes) ==
    /\ agent.pc \in {"stopped", "crashed"}
    /\ \E uuid_outcome \in uuid_outcomes, name_outcome \in name_outcomes,
          delivered \in deliveries, written \in writes :
          LET agent_id == get_or_create_agent_uuid(uuid_outcome)
              agent_name == get_or_create_agent_name(name_outcome)
          IN  IF agent_id.raised \/ agent_name.raised
              THEN /\ agent' = [agent EXCEPT !.pc = "crashed"]
                   /\ UNCHANGED <<machines, scripts, commands, resp>>
              ELSE register_agent(agent_id.value, agent_name.value, delivered, written)
    /\ UNCHANGED <<now, executed, inflight, request, parsed>>

AgentRegisterCommandStep ==
    AgentRegisterCommand(QueryOutcomes, QueryOutcomes, BOOLEAN, BOOLEAN)

NextRegistration ==
    \/ AgentRegisterCommandStep
    \/ RegisterStep
    \/ TickStep
    \/ AgentStart
    \/ AgentFetchStep
    \/ AgentHandleStep
    \/ AgentSleep

SpecRegistration ==
    Init /\ [][NextRegistration]_vars

(***************************************************************************)
(* The loop against the clock.  Requests take no time; a command that ends *)
(* with TimeoutExpired has run for its 60 seconds, any other for less than *)
(* a minute; asyncio.sleep(interval) returns when the interval has passed. *)
(***************************************************************************)
\* config.get('interval', 300), seconds, in minutes of the clock
interval ==
    LET config == load_config
    IN  (IF "interval" \in DOMAIN config THEN config.interval ELSE 300) \div 60

\* asyncio.sleep(interval) is called
AgentSleepCall ==
    /\ agent.pc = "sleep"
    /\ agent.wake = None
    /\ agent' = [agent EXCEPT !.wake = [at |-> now + interval]]
    /\ UNCHANGED <<machines, scripts, commands, now, resp, executed, inflight, request, parsed>>

\* asyncio.sleep(interval) returns
AgentSleepReturn ==
    /\ agent.pc = "sleep"
    /\ agent.wake # None
    /\ now >= agent.wake.at
    /\ agent' = [agent EXCEPT !.pc = "fetch", !.wake = None]
    /\ UNCHANGED <<machines, scripts, commands, now, resp, executed, inflight, request, parsed>>

\* a minute of the sleep
TickSleeping ==
    /\ agent.pc = "sleep"
    /\ agent.wake # None
    /\ now < agent.wake.at
    /\ Tick(MaxClock)

\* subprocess.run(..., timeout=60) of the command that timed out: a minute
TickRunning ==
    /\ agent.pc = "report"
    /\ agent.result.output = OutputTimeout
    /\ agent.ran # Len(executed)
    /\ now < MaxClock
    /\ now' = now + 1
    /\ resp' = Response("tick", 0, None)
    /\ agent' = [agent EXCEPT !.ran = Len(executed)]
    /\ UNCHANGED <<machines, scripts, commands, executed, inflight, request, parsed>>

\* the agent with its default interval, a network that delivers everything,
\* and the operator listing the active machines
NextPolling ==
    \/ CreateDiagScriptStep
    \/ ScheduleDiagStep
    \/ ListMachinesStep
    \/ AgentRegister({TRUE}, {TRUE})
    \/ AgentStart
    \/ AgentFetch({TRUE})
    \/ AgentHandle({"completed", "timeout"})
    \/ AgentReport({TRUE})
    \/ AgentSleepCall
    \/ AgentSleepReturn
    \/ TickSleeping
    \/ TickRunning

SpecPolling ==
    Init /\ [][NextPolling]_vars

(***************************************************************************)
(* Dispatch: two machines, two scripts of different content, commands for  *)
(* either machine and either script, and the agent of machine AgentId.     *)
(***************************************************************************)
CreateDispatchScriptStep ==
    /\ \E script \in DispatchScripts : create_script(script.name, script.content)
    /\ UNCHANGED <<now, agent, executed, inflight, request, parsed>>

ScheduleDispatchStep ==
    /\ Len(commands) < MaxCommands
    /\ \E id \in MachineIds, name \in DispatchNames : schedule_machine_command(id, name)
    /\ UNCHANGED <<now, agent, executed, inflight, request, parsed>>

RegisterOtherStep ==
    /\ \E id \in MachineIds \ {AgentId} : create_update_machine(id, "beta")
    /\ UNCHANGED <<now, agent, executed, inflight, request, parsed>>

NextDispatch ==
    \/ RegisterOtherStep
    \/ CreateDispatchScriptStep
    \/ ScheduleDispatchStep
    \/ AgentRegister({TRUE}, {TRUE})
    \/ AgentStart
    \/ AgentFetch({TRUE})
    \/ AgentHandleStep
    \/ AgentReport({TRUE})
    \/ AgentSleep

SpecDispatch ==
    Init /\ [][NextDispatch]_vars

(***************************************************************************)
(* Results of every JSON shape: the body of POST /commands/{id}/result is  *)
(* {"output": value}, and value may be an object, as the agent sends it,   *)
(* or null.                                                                *)
(***************************************************************************)
ReportedOutputs ==
    Outputs \cup {None}

CompleteAnyStep ==
    /\ \E id \in CommandIds, output \in ReportedOutputs : store_command_result(id, output)
    /\ UNCHANGED <<now, agent, executed, inflight, request, parsed>>

NextResults ==
    \/ RegisterStep
    \/ CreateDiagScriptStep
    \/ ScheduleStep
    \/ ListPendingStep
    \/ CompleteAnyStep

SpecResults ==
    Init /\ [][NextResults]_vars

(***************************************************************************)
(* ScriptSchema on its own: a request body is turned into the model, each  *)
(* field through its validator, and a model whose content was accepted is  *)
(* serialised through ScriptResponseSchema, whose validators run again.    *)
(***************************************************************************)
\* pieces a script text is put together from, at most
MaxPieces ==
    3

\* pieces a script name is put together from, at most
MaxNamePieces ==
    4

\* all texts made of at most n pieces
RECURSIVE Concatenations(_, _)
Concatenations(pieces, n) ==
    IF n = 0 THEN {<< >>}
    ELSE LET shorter == Concatenations(pieces, n - 1)
         IN  shorter \cup {s \o p : s \in shorter, p \in pieces}

PieceLs ==
    <<"l","s">>

PieceRm ==
    <<"r","m">>

PieceUpperLs ==
    <<"L","S">>

PieceSpace ==
    <<" ">>

PiecePipe ==
    <<"|">>

PieceRedirect ==
    <<" ",">"," ">>

PieceEtc ==
    <<" ","/","e","t","c">>

PieceSubdir ==
    <<"/","x">>

PieceSlash ==
    <<"/">>

PieceApostrophe ==
    <<Apostrophe>>

\* an apostrophe between double quotes: a literal apostrophe in the token
PieceQuotedApostrophe ==
    <<DoubleQuote,Apostrophe,DoubleQuote>>

PieceNewline ==
    <<"\n">>

PieceHash ==
    <<"#">>

PieceSu ==
    <<"s","u">>

PieceSemicolon ==
    <<";">>

PieceAssignment ==
    <<"X","=","1"," ">>

PieceAnd ==
    <<"&","&">>

PieceBacktick ==
    <<Backtick>>

PieceSubstitution ==
    <<"$","(">>

PieceSudo ==
    <<"s","u","d","o">>

\* a redirection written against its target
PieceAttachedRedirect ==
    <<" ",">","/","e","t","c">>

ContentPieces ==
    {PieceLs, PieceRm, PieceUpperLs, PieceSpace,
     PiecePipe, PieceRedirect, PieceEtc, PieceSubdir,
     PieceSlash, PieceApostrophe, PieceQuotedApostrophe, PieceNewline,
     PieceHash, PieceAssignment, PieceAttachedRedirect}

\* the constructs that are disallowed anywhere, as pieces
VetoPieces ==
    {PieceSu, PieceSemicolon, PieceAnd, PieceBacktick, PieceSubstitution, PieceSudo}

\* a disallowed construct alone, or with a piece before it, after it or both
VetoInputs ==
    {a \o d \o b : a, b \in Concatenations(ContentPieces, 1), d \in VetoPieces}

NamePieces ==
    {<<"a">>, <<"B">>, <<" ">>, <<"\t">>}

\* quoted arguments, each with the space that sets it off: a pipe, a
\* redirection operator, a text with an operator, a hash, a text with a space
PieceQuotedPipe ==
    <<" ","'","|","'">>

PieceQuotedOperator ==
    <<" ","'",">","'">>

PieceQuotedRedirect ==
    <<" ","'","a"," ",">"," ","b","'">>

PieceQuotedHash ==
    <<" ","'","#","'">>

PieceQuotedSpace ==
    <<" ","'","a"," ","b","'">>

QuotedPieces ==
    {PieceQuotedPipe, PieceQuotedOperator, PieceQuotedRedirect, PieceQuotedHash,
     PieceQuotedSpace}

\* a quoted argument alone, or with a piece before it, after it or both
QuotedInputs ==
    {a \o q \o b : a, b \in Concatenations(ContentPieces, 1), q \in QuotedPieces}

\* shell operators the disallowed constructs do not name: the background
\* operator, alone and quoted, and a process substitution
PieceBackground ==
    <<" ","&"," ">>

PieceQuotedBackground ==
    <<" ","'","&","'">>

PieceProcessSubstitution ==
    <<" ","<","(","r","m",")">>

OperatorPieces ==
    {PieceBackground, PieceQuotedBackground, PieceProcessSubstitution}

\* such an operator alone, or with a piece before it, after it or both
OperatorInputs ==
    {a \o o \o b : a, b \in Concatenations(ContentPieces, 1), o \in OperatorPieces}

\* pieces a token that starts with '~' is put together from, at most
MaxTildePieces ==
    3

\* tokens that start with '~': the tilde and some of these pieces
TildePieces ==
    {<<"r","o","o","t">>, <<"/">>, <<"f","i","l","e","s">>, <<"n","o","t","e","s">>}

TildeTokens ==
    {<<"~">> \o t : t \in Concatenations(TildePieces, MaxTildePieces)}

\* the command line "ls" with the token as its argument
LsWith(tok) ==
    PieceLs \o PieceSpace \o tok

TildeInputs ==
    {LsWith(tok) : tok \in TildeTokens}

ValidatorInputs ==
    Concatenations(ContentPieces, MaxPieces) \cup VetoInputs \cup QuotedInputs
        \cup OperatorInputs \cup TildeInputs

NameInputs ==
    Concatenations(NamePieces, MaxNamePieces)

\* the request bodies: every text under one name, every name with an
\* accepted and with a rejected text
Requests ==
    {[name |-> NameDiag, content |-> c] : c \in ValidatorInputs}
        \cup {[name |-> n, content |-> c] : n \in NameInputs, c \in {ContentLs, ContentRm}}

\* the two validators on these inputs, evaluated once
SchemaContent ==
    [v \in ValidatorInputs \cup {ContentLs, ContentRm} |-> validate_allowed_commands(v)]

SchemaName ==
    [n \in NameInputs \cup {NameDiag} \cup {normalize_name(m) : m \in NameInputs}
        |-> normalize_name(n)]

InitSchema ==
    /\ machines = << >>
    /\ scripts = << >>
    /\ commands = << >>
    /\ now = 0
    /\ resp = Response("init", 0, None)
    /\ agent = [pc |-> "stopped", config |-> None, registered |-> FALSE,
                server_url |-> "", agent_id |-> "", status |-> 0,
                batch |-> << >>, result |-> None,
                wake |-> None, ran |-> 0]
    /\ executed = << >>
    /\ inflight = [w \in Workers |-> None]
    /\ request \in Requests
    /\ parsed = None

\* ScriptSchema(**body): normalize_name on the name and
\* validate_allowed_commands on the content, each on its own field
BuildScriptSchema ==
    /\ request # None
    /\ parsed = None
    /\ parsed' = [name |-> SchemaName[request.name],
                  content |-> SchemaContent[request.content]]
    /\ UNCHANGED <<machines, scripts, commands, now, resp, agent, executed,
                   inflight, request>>

\* the answer: the ValueError of the content validator as 422, or the model
\* through ScriptResponseSchema, where both validators run a second time
BuildScriptResponseSchema ==
    /\ parsed # None
    /\ resp.op = "init"
    /\ resp' = IF ~parsed.content.ok
               THEN Response("ScriptSchema", HTTP_422_UNPROCESSABLE, parsed.content)
               ELSE Response("ScriptResponseSchema", HTTP_200_OK,
                             [name |-> SchemaName[parsed.name],
                              content |-> SchemaContent[parsed.content.value].value])
    /\ UNCHANGED <<machines, scripts, commands, now, agent, executed,
                   inflight, request, parsed>>

NextSchema ==
    \/ BuildScriptSchema
    \/ BuildScriptResponseSchema

SpecSchema ==
    InitSchema /\ [][NextSchema]_vars

(***************************************************************************)
(* Properties.                                                             *)
(***************************************************************************)
\* the step is the answer to a call of the handler
Answers(op) ==
    resp'.op = op

\* C1: every stored Script has content the validator accepts, and a
\* create_script call with content the validator rejects answers with the
\* rejection and leaves the three tables as they were.
C1_StoredScriptsAreValidated ==
    /\ [](\A n \in DOMAIN scripts : Validated[scripts[n]].ok)
    /\ [][\A name \in ScriptNames, content \in ScriptContents :
            (/\ Answers("create_script")
             /\ create_script(name, content)
             /\ ~Validated[content].ok)
            => /\ resp'.status = HTTP_422_UNPROCESSABLE
               /\ resp'.body = Validated[content]
               /\ ~resp'.body.ok
               /\ UNCHANGED storeVars]_vars

\* a script is stored and the last call was rejected by the validator
C1_Witness ==
    /\ resp.op = "create_script"
    /\ resp.status = HTTP_422_UNPROCESSABLE
    /\ resp.body.reason = "CommandNotAllowed"
    /\ DOMAIN scripts # {}

\* C2: a Command is created pending, its status only ever goes from pending
\* to completed, and no step removes it or changes its machine_id or
\* script_name.
C2_StatusMonotone ==
    [][/\ Len(commands') >= Len(commands)
       /\ \A i \in 1..Len(commands) :
             /\ commands'[i].machine_id = commands[i].machine_id
             /\ commands'[i].script_name = commands[i].script_name
             /\ commands[i].status = "completed" => commands'[i].status = "completed"
             /\ commands'[i].status \in command_status
       /\ \A i \in (Len(commands) + 1)..Len(commands') :
             commands'[i].status = "pending"]_vars

\* a completed command was completed again, next to one still pending
C2_Witness ==
    /\ resp.op = "store_command_result"
    /\ resp.status = HTTP_200_OK
    /\ \E i, j \in 1..Len(commands) :
          /\ commands[i].status = "completed"
          /\ commands[i].output = normalize_output(OutputTimeout)
          /\ commands[j].status = "pending"

\* C3: the agent passes the script of a given Command to the shell at most
\* once, whatever happens to its polls and reports.
C3_AtMostOnceDispatch ==
    \A i, j \in 1..Len(executed) : i # j => executed[i].id # executed[j].id

\* C4: once the agent of machine AgentId runs its loop, with every fetch
\* and report delivered, every Command scheduled for that machine is
\* eventually completed.
C4_EndToEndCompletion ==
    \A i \in 1..MaxCommands :
        [](/\ AgentRunning
           /\ CommandExists(i)
           /\ commands[i].machine_id = AgentId
           => <>(CommandExists(i) /\ commands[i].status = "completed"))

\* C5: schedule_machine_command answers 404 and changes no table when the
\* machine or the script does not exist; otherwise it appends one pending
\* Command with null output for that machine and script and changes
\* nothing else.
C5_ScheduleEffect ==
    [][\A id \in MachineIds, name \in ScriptNames :
          (Answers("schedule_machine_command") /\ schedule_machine_command(id, name))
          => IF ~MachineExists(id) \/ ~ScriptExists(name)
             THEN /\ resp'.status = HTTP_404_NOT_FOUND
                  /\ UNCHANGED storeVars
             ELSE /\ resp'.status = HTTP_200_OK
                  /\ commands' = Append(commands, [machine_id |-> id,
                                                   script_name |-> name,
                                                   status |-> "pending",
                                                   output |-> None])
                  /\ UNCHANGED <<machines, scripts>>]_vars

\* a second command was scheduled, for another machine than the first
C5_Witness ==
    /\ resp.op = "schedule_machine_command"
    /\ resp.status = HTTP_200_OK
    /\ resp.body.id = 2
    /\ Len(commands) = 2
    /\ commands[2].status = "pending"
    /\ commands[2].output = None
    /\ commands[2].machine_id # commands[1].machine_id

\* C6: store_command_result answers 404 and changes nothing when the
\* Command does not exist; otherwise it sets that Command's output and
\* status, changes no other row, and answers with the updated command
\* record, whose status is completed.
C6_CompleteEffect ==
    [][\A id \in CommandIds, output \in Outputs :
          (Answers("store_command_result") /\ store_command_result(id, output))
          => IF ~CommandExists(id)
             THEN /\ resp'.status = HTTP_404_NOT_FOUND
                  /\ UNCHANGED storeVars
             ELSE /\ resp'.status = HTTP_200_OK
                  /\ commands' = [commands EXCEPT
                                     ![id].output = normalize_output(output),
                                     ![id].status = "completed"]
                  /\ UNCHANGED <<machines, scripts>>
                  /\ resp'.body = [id |-> id,
                                   machine_id |-> commands[id].machine_id,
                                   script_name |-> commands[id].script_name,
                                   status |-> "completed",
                                   script |-> ScriptBody(commands[id].script_name),
                                   output |-> normalize_output(output)]]_vars

\* C7: list_pending_commands answers 404 and touches no last_seen when the
\* Machine does not exist; otherwise it sets the last_seen of that Machine
\* alone to now, changes no Command, and answers with exactly the Commands
\* of that machine that are pending.
C7_ListPendingEffect ==
    [][\A id \in MachineIds :
          (Answers("list_pending_commands") /\ list_pending_commands(id))
          => IF ~MachineExists(id)
             THEN /\ resp'.status = HTTP_404_NOT_FOUND
                  /\ UNCHANGED storeVars
             ELSE /\ resp'.status = HTTP_200_OK
                  /\ DOMAIN machines' = DOMAIN machines
                  /\ machines'[id] = [name |-> machines[id].name, last_seen |-> now]
                  /\ \A m \in DOMAIN machines \ {id} : machines'[m] = machines[m]
                  /\ UNCHANGED <<scripts, commands>>
                  /\ {c.id : c \in resp'.body}
                        = {i \in 1..Len(commands) :
                              /\ commands[i].machine_id = id
                              /\ commands[i].status = "pending"}
                  /\ \A c \in resp'.body :
                        /\ c.machine_id = id
                        /\ c.status = "pending"
                        /\ c.script_name = commands[c.id].script_name]_vars

\* a poll, later than the registration, answered with a pending command
\* and left out a completed one
C7_Witness ==
    /\ resp.op = "list_pending_commands"
    /\ resp.status = HTTP_200_OK
    /\ resp.body # {}
    /\ \E i \in 1..Len(commands) :
          /\ commands[i].status = "completed"
          /\ \A c \in resp.body : c.id # i /\ c.machine_id = commands[i].machine_id
    /\ \E m \in DOMAIN machines : machines[m].last_seen < now
    /\ \E m \in DOMAIN machines : machines[m].last_seen = now

\* the step returns from a create_script call: with the rejection of the
\* request model, or from the commit
CreateScriptReturns ==
    \/ \E w \in Workers, name \in ScriptNames, content \in ScriptContents :
          BeginCreateScript(w, name, content) /\ ~Validated[content].ok
    \/ \E w \in Workers : CommitCreateScript(w)

\* C8, as stated: of the create_script calls for one normalized name, one
\* succeeds and every other one fails with Conflict, and the stored content
\* stays that of the successful call.
C8_OneSucceedsOthersConflict ==
    [][/\ \A k \in DOMAIN scripts :
             k \in DOMAIN scripts' /\ scripts'[k] = scripts[k]
       /\ CreateScriptReturns
          => resp'.status \in {HTTP_200_OK, HTTP_409_CONFLICT}]_vars

\* C8, amended: of the create_script calls for one normalized name whose
\* content the validator accepts, the first to commit succeeds and stores
\* its content, every later one fails with Conflict and stores nothing; a
\* call whose content the validator rejects fails with the rejection; the
\* stored content of a name never changes.
C8_FirstCommitWins ==
    [][/\ \A k \in DOMAIN scripts :
             k \in DOMAIN scripts' /\ scripts'[k] = scripts[k]
       /\ \A w \in Workers :
             CommitCreateScript(w)
             => LET new_script == inflight[w].new_script
                IN  /\ Validated[new_script.content].ok
                    /\ IF new_script.name \in DOMAIN scripts
                       THEN /\ resp'.status = HTTP_409_CONFLICT
                            /\ scripts' = scripts
                       ELSE /\ resp'.status = HTTP_200_OK
                            /\ DOMAIN scripts' = DOMAIN scripts \cup {new_script.name}
                            /\ scripts'[new_script.name] = new_script.content
       /\ \A w \in Workers, name \in ScriptNames, content \in ScriptContents :
             BeginCreateScript(w, name, content)
             => IF Validated[content].ok
                THEN /\ inflight'[w].new_script.name = Normalized[name]
                     /\ UNCHANGED <<scripts, resp>>
                ELSE /\ Answers("create_script")
                     /\ resp'.status = HTTP_422_UNPROCESSABLE
                     /\ UNCHANGED <<scripts, inflight>>]_vars

\* two calls for the same name were in flight together; one has committed
\* its content and the other, with other content, got the Conflict
C8_Witness ==
    /\ resp.op = "create_script"
    /\ resp.status = HTTP_409_CONFLICT
    /\ \E w \in Workers :
          /\ inflight[w] # None
          /\ inflight[w].new_script.name = resp.body
          /\ inflight[w].new_script.content # scripts[resp.body]

\* C9: list_machines answers with exactly the Machines whose last_seen is
\* not older than 5 minutes (4 and 5 minutes old are listed, 6 minutes old
\* is not) and changes no state.
C9_LivenessWindow ==
    /\ [](resp.op = "list_machines"
          => /\ resp.status = HTTP_200_OK
             /\ resp.body \subseteq {MachineBody(id) : id \in DOMAIN machines}
             /\ \A id \in DOMAIN machines :
                   MachineBody(id) \in resp.body <=> now - machines[id].last_seen <= 5)
    /\ [][Answers("list_machines") => UNCHANGED <<machines, scripts, commands, now>>]_vars

\* a listing with a machine seen exactly 5 minutes ago, which is in it, and
\* one seen 6 minutes ago, which is not
C9_Witness ==
    /\ resp.op = "list_machines"
    /\ \E a, b \in DOMAIN machines :
          /\ now - machines[a].last_seen = 5
          /\ MachineBody(a) \in resp.body
          /\ now - machines[b].last_seen = 6
          /\ MachineBody(b) \notin resp.body

\* C10: create_update_machine creates the Machine with last_seen = now, or
\* updates its name and last_seen only; no other Machine, no Command and no
\* Script changes, and repeating the registration just made leaves the ids
\* and names of the machine table as they are.
C10_RegisterEffect ==
    [][\A id \in MachineIds, name \in MachineNames :
          (Answers("create_update_machine") /\ create_update_machine(id, name))
          => /\ resp'.status = HTTP_200_OK
             /\ DOMAIN machines' = DOMAIN machines \cup {id}
             /\ machines'[id] = [name |-> name, last_seen |-> now]
             /\ \A m \in DOMAIN machines \ {id} : machines'[m] = machines[m]
             /\ UNCHANGED <<scripts, commands>>
             /\ (/\ resp.op = "create_update_machine"
                 /\ resp.body.id = id
                 /\ resp.body.name = name)
                => /\ DOMAIN machines' = DOMAIN machines
                   /\ \A m \in DOMAIN machines :
                         machines'[m].name = machines[m].name]_vars

\* a machine with a scheduled command was registered again, later and
\* under another name than the other machine carries
C10_Witness ==
    /\ resp.op = "create_update_machine"
    /\ now > 0
    /\ machines[resp.body.id].last_seen = now
    /\ \E i \in 1..Len(commands) : commands[i].machine_id = resp.body.id
    /\ \E m \in DOMAIN machines : machines[m].last_seen < now

(***************************************************************************)
(* The vocabulary of the properties of the validator: a script text read   *)
(* as lines, '|'-delimited segments and tokens.                            *)
(***************************************************************************)
\* the lines of a script that are neither blank nor comments, trimmed
CommandLines(v) ==
    LET lines == SplitLines(v)
    IN  {Strip(lines[i]) : i \in {j \in 1..Len(lines) :
                                     /\ Strip(lines[j]) # << >>
                                     /\ ~StartsWith(Strip(lines[j]), <<"#">>)}}

\* the '|'-delimited segments of a line, trimmed
SegmentsOfLine(line) ==
    LET pieces == Split(line, "|")
    IN  {Strip(pieces[k]) : k \in 1..Len(pieces)}

PipelineSegments(v) ==
    UNION {SegmentsOfLine(line) : line \in CommandLines(v)}

\* the segment tokenizes and has a token that is not a NAME=VALUE assignment
HasCommandToken(seg) ==
    /\ ShlexSplit(seg).ok
    /\ CommandTokenIndex(ShlexSplit(seg).tokens) # 0

CommandTokenOf(seg) ==
    ShlexSplit(seg).tokens[CommandTokenIndex(ShlexSplit(seg).tokens)]

\* the command token of the segment, by basename and lower-cased, is in
\* the allowlist
CommandInAllowlist(seg) ==
    /\ HasCommandToken(seg)
    /\ Lower(Basename(CommandTokenOf(seg))) \in allowed_commands

\* the tokens after the command token
ArgumentTokens(seg) ==
    LET tokens == ShlexSplit(seg).tokens
    IN  {tokens[i] : i \in (CommandTokenIndex(tokens) + 1)..Len(tokens)}

TouchesForbiddenPath(seg) ==
    /\ HasCommandToken(seg)
    /\ \E tok \in ArgumentTokens(seg) : token_references_forbidden_path(tok)

UsesDisallowedToken(v) ==
    \E k \in 1..Len(disallowed_tokens) : Contains(Lower(v), disallowed_tokens[k])

\* a redirection operator is the last token of the segment
EndsWithRedirection(seg) ==
    /\ HasCommandToken(seg)
    /\ LET tokens == ShlexSplit(seg).tokens
       IN  /\ Len(tokens) > CommandTokenIndex(tokens)
           /\ tokens[Len(tokens)] \in redirection_operators

\* every segment has an allowlisted command token, no disallowed construct
\* is used and no forbidden path is touched
AllowlistSound(v) ==
    /\ ~UsesDisallowedToken(v)
    /\ \A seg \in PipelineSegments(v) :
          CommandInAllowlist(seg) /\ ~TouchesForbiddenPath(seg)

\* C11, as stated: a script whose every segment has an allowlisted command
\* token, that uses no disallowed construct and touches no forbidden path
\* is accepted and returned unchanged.
C11_AllowlistSoundness ==
    (parsed # None /\ AllowlistSound(request.content))
    => /\ parsed.content.ok
       /\ parsed.content.value = request.content

\* C11, amended: such a script in which, moreover, no segment ends with a
\* redirection operator is accepted and returned unchanged, by the
\* validator and again on the way out through the response schema.
C11_AllowlistSoundnessNoDangling ==
    (/\ parsed # None
     /\ AllowlistSound(request.content)
     /\ \A seg \in PipelineSegments(request.content) : ~EndsWithRedirection(seg))
    => /\ parsed.content.ok
       /\ parsed.content.value = request.content
       /\ resp.op # "init" => /\ resp.status = HTTP_200_OK
                              /\ resp.body.content = request.content

\* "LS|ls" was accepted: an upper-case command token and a second segment
C11_Witness ==
    /\ resp.op = "ScriptResponseSchema"
    /\ request.content = PieceUpperLs \o PiecePipe \o PieceLs
    /\ resp.body.content = request.content

\* the positions <<line number, segment number>> of the segments of the
\* lines that are neither blank nor comments
SegmentPositions(v) ==
    LET lines == SplitLines(v)
    IN  {p \in (1..Len(lines)) \X (1..(Len(v) + 1)) :
            /\ Strip(lines[p[1]]) # << >>
            /\ ~StartsWith(Strip(lines[p[1]]), <<"#">>)
            /\ p[2] <= Len(Split(Strip(lines[p[1]]), "|"))}

SegmentAt(v, p) ==
    Strip(Split(Strip(SplitLines(v)[p[1]]), "|")[p[2]])

\* reading order: earlier line, or earlier in the same line
Precedes(p, q) ==
    p[1] < q[1] \/ (p[1] = q[1] /\ p[2] < q[2])

\* the segment has a command token and it is outside the allowlist
CommandOutsideAllowlist(seg) ==
    HasCommandToken(seg) /\ ~CommandInAllowlist(seg)

\* C12, as stated: a script with a segment whose command token is outside
\* the allowlist is rejected with CommandNotAllowed.
C12_AllowlistCompleteness ==
    (/\ parsed # None
     /\ \E p \in SegmentPositions(request.content) :
           CommandOutsideAllowlist(SegmentAt(request.content, p)))
    => /\ ~parsed.content.ok
       /\ parsed.content.reason = "CommandNotAllowed"

\* C12, amended: such a script is rejected; the rejection is
\* CommandNotAllowed, naming that command token and its line, when the
\* script uses no disallowed construct and every segment before it has an
\* allowlisted command token, touches no forbidden path and does not end
\* with a redirection operator.
C12_AllowlistCompletenessInOrder ==
    parsed # None
    => \A p \in SegmentPositions(request.content) :
          CommandOutsideAllowlist(SegmentAt(request.content, p))
          => /\ ~parsed.content.ok
             /\ resp.op # "init" => resp.status = HTTP_422_UNPROCESSABLE
             /\ (/\ ~UsesDisallowedToken(request.content)
                 /\ \A q \in SegmentPositions(request.content) :
                       Precedes(q, p)
                       => LET seg == SegmentAt(request.content, q)
                          IN  /\ CommandInAllowlist(seg)
                              /\ ~TouchesForbiddenPath(seg)
                              /\ ~EndsWithRedirection(seg))
                => /\ parsed.content.reason = "CommandNotAllowed"
                   /\ parsed.content.line = p[1]
                   /\ parsed.content.token = CommandTokenOf(SegmentAt(request.content, p))

\* "ls|rm" was rejected at its second segment, naming "rm"
C12_Witness ==
    /\ resp.op = "ScriptSchema"
    /\ request.content = PieceLs \o PiecePipe \o PieceRm
    /\ resp.body.reason = "CommandNotAllowed"
    /\ resp.body.token = PieceRm

\* the seven constructs that are disallowed anywhere in a script
DisallowedConstructs ==
    { <<";">>, <<"&","&">>, <<"|","|">>, <<Backtick>>, <<"$","(">>,
      <<"s","u","d","o">>, <<"s","u">> }

\* C13: a non-empty script is rejected with DisallowedToken, naming a
\* construct it contains, exactly when its lower-cased text contains one of
\* the seven disallowed constructs anywhere, whatever else it contains.
C13_GlobalTokenVeto ==
    parsed # None
    => LET hit == /\ request.content # << >>
                  /\ \E c \in DisallowedConstructs : Contains(Lower(request.content), c)
       IN  /\ hit <=> (~parsed.content.ok /\ parsed.content.reason = "DisallowedToken")
           /\ hit => /\ parsed.content.token \in DisallowedConstructs
                     /\ Contains(Lower(request.content), parsed.content.token)
                     /\ resp.op # "init" => resp.status = HTTP_422_UNPROCESSABLE

\* "#su" was rejected: the construct is in a comment line
C13_Witness ==
    /\ resp.op = "ScriptSchema"
    /\ request.content = PieceHash \o PieceSu
    /\ resp.body.reason = "DisallowedToken"
    /\ resp.body.token = PieceSu

\* the nine sensitive roots
SensitiveRoots ==
    { <<"/","e","t","c">>, <<"/","r","o","o","t">>, <<"/","b","o","o","t">>,
      <<"/","d","e","v">>, <<"/","p","r","o","c">>, <<"/","s","y","s">>,
      <<"/","v","a","r","/","l","i","b">>, <<"/","v","a","r","/","r","u","n">>,
      <<"/","r","u","n">> }

\* the token is a sensitive root or lies under one
UnderSensitiveRoot(tok) ==
    \E root \in SensitiveRoots : tok = root \/ StartsWith(tok, root \o <<"/">>)

\* the token with surrounding quote characters stripped
Unquoted(tok) ==
    StripChars(tok, {Apostrophe, DoubleQuote})

\* the rejection is one of the two raised for a forbidden path: an argument,
\* or the target of a redirection
IsForbiddenPathRejection(r) ==
    ~r.ok /\ r.reason \in {"ForbiddenPath", "ForbiddenRedirectTarget"}

\* every segment before position p has an allowlisted command token,
\* touches no forbidden path and does not end with a redirection operator
CleanBefore(v, p) ==
    \A q \in SegmentPositions(v) :
        Precedes(q, p)
        => /\ CommandInAllowlist(SegmentAt(v, q))
           /\ ~TouchesForbiddenPath(SegmentAt(v, q))
           /\ ~EndsWithRedirection(SegmentAt(v, q))

\* C14, as stated: an argument token that starts with '/' is forbidden
\* exactly when it is a sensitive root or lies under one, and a script with
\* such an argument after an allowlisted command is rejected with
\* ForbiddenPath.
C14_PathContainment ==
    parsed # None
    => \A p \in SegmentPositions(request.content) :
          LET seg == SegmentAt(request.content, p)
          IN  CommandInAllowlist(seg)
              => \A tok \in ArgumentTokens(seg) :
                    /\ StartsWith(tok, <<"/">>)
                       => (token_references_forbidden_path(tok) <=> UnderSensitiveRoot(tok))
                    /\ UnderSensitiveRoot(tok)
                       => IsForbiddenPathRejection(parsed.content)

\* C14, amended: an argument token that, with surrounding quote characters
\* stripped, starts with '/' is forbidden exactly when the stripped token is
\* a sensitive root or lies under one; a script with such an argument after
\* an allowlisted command is rejected, and the rejection is the one for a
\* forbidden path, naming the first such token of the segment and its
\* line, when the script uses no disallowed construct and every segment
\* before is clean.
C14_PathContainmentUnquoted ==
    parsed # None
    => \A p \in SegmentPositions(request.content) :
          LET seg == SegmentAt(request.content, p)
          IN  CommandInAllowlist(seg)
              => \A tok \in ArgumentTokens(seg) :
                    /\ StartsWith(Unquoted(tok), <<"/">>)
                       => (token_references_forbidden_path(tok)
                              <=> UnderSensitiveRoot(Unquoted(tok)))
                    /\ UnderSensitiveRoot(Unquoted(tok))
                       => /\ ~parsed.content.ok
                          /\ (/\ ~UsesDisallowedToken(request.content)
                              /\ CleanBefore(request.content, p))
                             => /\ IsForbiddenPathRejection(parsed.content)
                                /\ parsed.content.line = p[1]
                                /\ parsed.content.token \in ArgumentTokens(seg)
                                /\ UnderSensitiveRoot(Unquoted(parsed.content.token))

\* "ls /etc/x" was rejected for the path, and "ls /etcls" accepted
C14_Witness ==
    /\ resp.op = "ScriptSchema"
    /\ request.content = PieceLs \o PieceEtc \o PieceSubdir
    /\ resp.body.reason = "ForbiddenPath"
    /\ resp.body.token = <<"/","e","t","c","/","x">>
    /\ SchemaContent[PieceLs \o PieceEtc \o PieceLs].ok

\* the five redirection operators
RedirectionOperators ==
    { <<">">>, <<">",">">>, <<"<">>, <<"2",">">>, <<"2",">",">">> }

\* the paths the shell opens for the redirections of a segment: the token
\* after an operator, or what follows an operator within its token
RedirectionTargets(seg) ==
    LET tokens == ShlexSplit(seg).tokens
        first == CommandTokenIndex(tokens) + 1
    IN  {tokens[i + 1] : i \in {j \in first..(Len(tokens) - 1) :
                                  tokens[j] \in RedirectionOperators}}
        \cup {SubSeq(tokens[i], Len(op) + 1, Len(tokens[i])) :
                 <<i, op>> \in {x \in (first..Len(tokens)) \X RedirectionOperators :
                                  /\ StartsWith(tokens[x[1]], x[2])
                                  /\ Len(tokens[x[1]]) > Len(x[2])
                                  /\ tokens[x[1]][Len(x[2]) + 1] # ">"}}

\* C15: a script in which an allowlisted command redirects to or from a
\* path under a sensitive root is rejected, and a segment of an allowlisted
\* command whose last token is a redirection operator is rejected, with
\* DanglingRedirect when nothing before that operator is a violation.
C15_RedirectionTargetsChecked ==
    parsed # None
    => \A p \in SegmentPositions(request.content) :
          LET seg == SegmentAt(request.content, p)
          IN  CommandInAllowlist(seg)
              => /\ \A target \in RedirectionTargets(seg) :
                       UnderSensitiveRoot(Unquoted(target)) => ~parsed.content.ok
                 /\ EndsWithRedirection(seg)
                    => /\ ~parsed.content.ok
                       /\ (/\ ~UsesDisallowedToken(request.content)
                           /\ CleanBefore(request.content, p)
                           /\ ~TouchesForbiddenPath(seg))
                          => parsed.content.reason = "DanglingRedirect"

\* C16, as stated: a script is accepted only if every segment of every
\* line is non-empty, has an allowlisted command token and touches no
\* forbidden path, and a script with an empty segment is rejected with
\* EmptySegment.
C16_PipelineComposition ==
    parsed # None
    => /\ (parsed.content.ok /\ request.content # << >>)
          => \A p \in SegmentPositions(request.content) :
                LET seg == SegmentAt(request.content, p)
                IN  /\ seg # << >>
                    /\ CommandInAllowlist(seg)
                    /\ ~TouchesForbiddenPath(seg)
       /\ (\E p \in SegmentPositions(request.content) :
              SegmentAt(request.content, p) = << >>)
          => /\ ~parsed.content.ok
             /\ parsed.content.reason = "EmptySegment"

\* C16, amended: the segments are validated in order, so a script is
\* accepted only if every segment of every line is non-empty, has an
\* allowlisted command token and touches no forbidden path; a script with
\* an empty segment is rejected, and with EmptySegment and the number of
\* its line when the script uses no disallowed construct and every
\* segment before the empty one is clean.
C16_PipelineCompositionInOrder ==
    parsed # None
    => /\ (parsed.content.ok /\ request.content # << >>)
          => \A p \in SegmentPositions(request.content) :
                LET seg == SegmentAt(request.content, p)
                IN  /\ seg # << >>
                    /\ CommandInAllowlist(seg)
                    /\ ~TouchesForbiddenPath(seg)
       /\ \A p \in SegmentPositions(request.content) :
             SegmentAt(request.content, p) = << >>
             => /\ ~parsed.content.ok
                /\ (/\ ~UsesDisallowedToken(request.content)
                    /\ CleanBefore(request.content, p))
                   => /\ parsed.content.reason = "EmptySegment"
                      /\ parsed.content.line = p[1]

\* "ls|" was rejected for its empty second segment; "ls|LS" is accepted and
\* "ls|rm" rejected for the command of its second segment
C16_Witness ==
    /\ resp.op = "ScriptSchema"
    /\ request.content = PieceLs \o PiecePipe
    /\ resp.body.reason = "EmptySegment"
    /\ SchemaContent[PieceLs \o PiecePipe \o PieceUpperLs].ok
    /\ SchemaContent[PieceLs \o PiecePipe \o PieceRm].reason = "CommandNotAllowed"

\* the name has no space, no upper-case letter and no white space at its
\* ends
IsNormalizedName(n) ==
    /\ \A i \in 1..Len(n) : n[i] # " " /\ n[i] \notin UpperLetters
    /\ n # << >> => n[1] \notin Whitespace /\ n[Len(n)] \notin Whitespace

\* C17: the name of the model is the normalized form of the name of the
\* request, whether the content was accepted or rejected; normalizing it
\* again changes nothing, so the name that goes out through the response
\* schema is the same.
C17_NormalizationIdempotent ==
    parsed # None
    => /\ IsNormalizedName(parsed.name)
       /\ normalize_name(parsed.name) = parsed.name
       /\ normalize_name(normalize_name(request.name)) = normalize_name(request.name)
       /\ resp.op = "ScriptResponseSchema" => resp.body.name = parsed.name

\* the name " a B" came with a rejected content and was normalized to "ab"
C17_Witness ==
    /\ resp.op = "ScriptSchema"
    /\ ~parsed.content.ok
    /\ request.name = <<" ", "a", " ", "B">>
    /\ parsed.name = <<"a", "b">>

\* C18: once the run loop has started, no step ends it: whatever the
\* answer to a fetch, the outcome of an execution or of a report, the agent
\* is still in its loop afterwards.
C18_LoopNeverTerminates ==
    [][AgentRunning => AgentRunning']_vars

\* the keys main needs are in the configuration file
ConfigComplete ==
    /\ agent.config # None
    /\ {"server_url", "agent_id"} \subseteq DOMAIN agent.config

C20_StartupRequiresConfig ==
    [][AgentStart
       => IF ConfigComplete
          THEN agent'.pc = "fetch"
          ELSE agent'.pc = "crashed" /\ UNCHANGED <<storeVars, resp>>]_vars

\* the create_update_machine calls that are in flight for machine id
RegistrationsInFlight(id) ==
    {w \in Workers : /\ inflight[w] # None
                     /\ inflight[w].op = "create_update_machine"
                     /\ inflight[w].model.id = id}

\* C21: however two concurrent registerOrUpdateMachine calls with the same
\* machine id interleave, each call that commits succeeds, and the store then
\* holds the one Machine with that id under the name given by one of the
\* calls (the committing one, an overlapping one, or the one stored before).
C21_ConcurrentRegistration ==
    [][\A w \in Workers :
          CommitRegister(w) =>
              LET id == inflight[w].model.id
              IN  /\ resp'.status = HTTP_200_OK
                  /\ id \in DOMAIN machines'
                  /\ machines'[id].name \in
                         {inflight[v].model.name : v \in RegistrationsInFlight(id)}
                         \cup {machines[m].name : m \in DOMAIN machines \cap {id}}]_vars

\* C22: completeCommand does not look at the status: every call for a Command
\* that exists, a pending or an already completed one, issued after or while
\* another call completes it, succeeds, leaves the status completed and the
\* output it reported stored, so that the output is always that of the call
\* that committed last.
C22_RecompletionOverwrites ==
    [][\A w \in Workers :
          CommitComplete(w) =>
              LET id == inflight[w].command_id
              IN  /\ resp'.status = HTTP_200_OK
                  /\ commands'[id].status = "completed"
                  /\ commands'[id].output = inflight[w].output]_vars

\* the agent starts to execute a command
ExecutionStarts ==
    executed' # executed

\* the command the loop over the batch is at
CurrentCommand ==
    [id |-> Head(agent.batch).id, command |-> Head(agent.batch).script.content]

\* C23: within a fetched batch the agent handles the commands one at a time
\* in the order received.  An execution starts only for the command at the
\* head of what is left of the batch and only while no result waits to be
\* reported; a result is reported before the loop moves on; the report,
\* delivered or not, leaves the rest of the batch to be handled; a batch is
\* replaced only by a fetch, which follows the sleep, which follows the end
\* of the batch.
C23_BatchHandledInOrder ==
    [][/\ ExecutionStarts =>
             /\ agent.pc = "handle"
             /\ agent.result = None
             /\ executed' = Append(executed, CurrentCommand)
             /\ \/ /\ agent'.pc = "report"
                   /\ agent'.batch = agent.batch
                   /\ agent'.result.command_id = CurrentCommand.id
                \/ /\ agent'.pc = "handle"
                   /\ agent'.batch = Tail(agent.batch)
                   /\ agent'.result = None
       /\ (agent.pc = "report" /\ agent' # agent) =>
             /\ ~ExecutionStarts
             /\ agent'.pc = "handle"
             /\ agent'.batch = Tail(agent.batch)
             /\ agent'.result = None
       /\ (agent'.batch # agent.batch /\ agent.batch # << >>) =>
             agent'.batch = Tail(agent.batch)
       /\ (agent'.batch # agent.batch /\ agent.batch = << >>) =>
             agent.pc = "fetch"
       /\ (agent'.pc = "fetch" /\ agent.pc # "fetch") =>
             agent.pc \in {"sleep", "stopped", "crashed"}
       /\ (agent'.pc = "sleep" /\ agent.pc # "sleep") =>
             (agent.pc = "handle" /\ agent.batch = << >>)]_vars

\* the report of the first command of a batch failed and the second command
\* has been executed and waits to be reported
C23_Witness ==
    /\ agent.pc = "report"
    /\ agent.status = 0
    /\ Len(executed) = 2
    /\ executed[1].id # executed[2].id
    /\ agent.result.command_id = executed[2].id
    /\ commands[executed[1].id].status = "pending"

\* C24: every execution the agent starts is followed by exactly one attempt
\* to report a result under that command's id: the captured output of a
\* process that ended, or the synthesized TimeoutExpired output; the report
\* is made once, and the loop goes on.
C24_ExactlyOneReport ==
    [][/\ ExecutionStarts =>
             /\ agent'.pc = "report"
             /\ agent'.result.command_id = CurrentCommand.id
             /\ agent'.result.output \in {OutputOk, OutputTimeout}
       /\ (agent.pc = "report" /\ agent' # agent) =>
             /\ agent'.result = None
             /\ AgentRunning']_vars

\* the commands of the allowlist the texts are built with
AllowlistedPieces ==
    {PieceLs, PieceUpperLs}

\* C25: a quoted argument with a space or with a special character ('|',
\* '>', '#') is one token of its segment and opens no further segment, so an
\* allowlisted command followed by such an argument is accepted unchanged;
\* and a segment whose quotes are unbalanced is rejected with
\* UnparsableSegment (when nothing before it in the script is rejected).
C25_ShellAwareTokenization ==
    parsed # None
    => /\ \A c \in AllowlistedPieces, q \in QuotedPieces :
             request.content = c \o q
             => /\ parsed.content.ok
                /\ parsed.content.value = request.content
       /\ \A p \in SegmentPositions(request.content) :
             (/\ ~ShlexSplit(SegmentAt(request.content, p)).ok
              /\ ~UsesDisallowedToken(request.content)
              /\ CleanBefore(request.content, p))
             => /\ ~parsed.content.ok
                /\ parsed.content.reason = "UnparsableSegment"
                /\ parsed.content.line = p[1]

\* the positions of v from i on that the shell reads outside quotes and
\* comments, q being the quote that is open at i ("" for none, "#" inside a
\* comment, which a '#' at the start of a word opens up to the end of the line)
RECURSIVE UnquotedPositions(_, _, _)
UnquotedPositions(v, i, q) ==
    IF i > Len(v) THEN {}
    ELSE IF q = ""
         THEN IF v[i] \in ShlexQuotes THEN UnquotedPositions(v, i + 1, v[i])
              ELSE IF v[i] = ShlexEscape THEN UnquotedPositions(v, i + 2, "")
              ELSE IF v[i] = "#" /\ (i = 1 \/ v[i - 1] \in Whitespace)
                   THEN UnquotedPositions(v, i + 1, "#")
              ELSE {i} \cup UnquotedPositions(v, i + 1, "")
         ELSE IF q = "#"
              THEN UnquotedPositions(v, i + 1, IF v[i] \in LineBreaks THEN "" ELSE "#")
         ELSE IF v[i] = q THEN UnquotedPositions(v, i + 1, "")
              ELSE IF q = DoubleQuote /\ v[i] = ShlexEscape
                   THEN UnquotedPositions(v, i + 2, q)
              ELSE UnquotedPositions(v, i + 1, q)

\* the character of v at position i, "" outside v
CharAt(v, i) ==
    IF i \in 1..Len(v) THEN v[i] ELSE ""

\* v has, where the shell reads it as syntax, something that starts a
\* command besides the command tokens of the pipelines: a separator (';',
\* '&&', '||'), the background operator '&' (not the '&' of a '>&'
\* redirection), a command substitution or a process substitution
StartsFurtherCommand(v) ==
    \/ \E i \in UnquotedPositions(v, 1, "") :
          \/ v[i] = ";"
          \/ v[i] = "&" /\ CharAt(v, i - 1) \notin {">", "<"} /\ CharAt(v, i + 1) # ">"
          \/ v[i] = "|" /\ CharAt(v, i + 1) = "|"
          \/ v[i] \in {"<", ">"} /\ CharAt(v, i + 1) = "("
    \/ Contains(v, <<"$","(">>)
    \/ Contains(v, <<Backtick>>)

\* C26: an accepted script can make the shell start only the commands its
\* pipeline segments name, all of the allowlist: every segment of every
\* command line has an allowlisted command token, and the text has no
\* construct that starts a further command.
C26_RestrictedGrammar ==
    (parsed # None /\ parsed.content.ok /\ request.content # << >>)
    => /\ \A p \in SegmentPositions(request.content) :
             CommandInAllowlist(SegmentAt(request.content, p))
       /\ ~StartsFurtherCommand(request.content)

\* the constructs that chain commands
ChainingConstructs ==
    { <<";">>, <<"&","&">>, <<"|","|">> }

\* the numbers of the non-blank, non-comment lines of v that contain a
\* chaining construct
ChainingLines(v) ==
    LET lines == SplitLines(v)
    IN  {i \in 1..Len(lines) :
            /\ Strip(lines[i]) # << >>
            /\ ~StartsWith(Strip(lines[i]), <<"#">>)
            /\ \E c \in ChainingConstructs : Contains(lines[i], c)}

\* C27, as stated: a script with a non-blank, non-comment line that contains
\* ';', '&&' or '||' is rejected with ChainingNotAllowed and the number of
\* the first such line.
C27_ChainingRejectedByLine ==
    (parsed # None /\ ChainingLines(request.content) # {})
    => /\ ~parsed.content.ok
       /\ parsed.content.reason = "ChainingNotAllowed"
       /\ parsed.content.line \in ChainingLines(request.content)

\* C27, amended: a script with a non-blank, non-comment line that contains
\* ';', '&&' or '||' is rejected by the scan of the whole text, with
\* DisallowedToken, one of these constructs as the token it names and no
\* line number; the check of the line is never reached, and no script is
\* rejected with ChainingNotAllowed.
C27_ChainingRejectedByScan ==
    parsed # None
    => /\ ChainingLines(request.content) # {}
          => /\ ~parsed.content.ok
             /\ parsed.content.reason = "DisallowedToken"
             /\ parsed.content.token \in ChainingConstructs
             /\ parsed.content.line = 0
             /\ resp.op # "init" => resp.status = HTTP_422_UNPROCESSABLE
       /\ parsed.content.reason # "ChainingNotAllowed"

\* "ls;" was rejected by the scan, and so is "&&ls" on a second line
C27_Witness ==
    /\ resp.op = "ScriptSchema"
    /\ request.content = PieceLs \o PieceSemicolon
    /\ resp.body.reason = "DisallowedToken"
    /\ resp.body.token = <<";">>
    /\ SchemaContent[PieceNewline \o PieceAnd \o PieceLs].reason = "DisallowedToken"
    /\ ChainingLines(PieceNewline \o PieceAnd \o PieceLs) = {2}

\* C28, as stated: an argument that starts with '~' is forbidden exactly when
\* it starts with '~root'.
C28_TildeRootOnly ==
    parsed # None
    => \A tok \in TildeTokens :
          request.content = LsWith(tok)
          => (~parsed.content.ok <=> StartsWith(tok, <<"~","r","o","o","t">>))

\* C28, amended: an argument that starts with '~' is forbidden exactly when
\* it starts with '~root' or with '~/root'; the script that uses it is then
\* rejected with ForbiddenPath, the token and the line, and every other
\* argument that starts with '~' is let through.
C28_TildeRootOrHomeRoot ==
    parsed # None
    => \A tok \in TildeTokens :
          request.content = LsWith(tok)
          => /\ ~parsed.content.ok
                <=> \/ StartsWith(tok, <<"~","r","o","o","t">>)
                    \/ StartsWith(tok, <<"~","/","r","o","o","t">>)
             /\ ~parsed.content.ok
                => /\ parsed.content.reason = "ForbiddenPath"
                   /\ parsed.content.token = tok
                   /\ parsed.content.line = 1
             /\ parsed.content.ok => parsed.content.value = request.content

\* "ls ~/rootfiles" was rejected; "ls ~rootfiles" is rejected and
\* "ls ~/notes" and "ls ~files/root" are accepted
C28_Witness ==
    /\ resp.op = "ScriptSchema"
    /\ request.content = LsWith(<<"~","/","r","o","o","t","f","i","l","e","s">>)
    /\ resp.body.reason = "ForbiddenPath"
    /\ ~SchemaContent[LsWith(<<"~","r","o","o","t","f","i","l","e","s">>)].ok
    /\ SchemaContent[LsWith(<<"~","/","n","o","t","e","s">>)].ok
    /\ SchemaContent[LsWith(<<"~","f","i","l","e","s","/","r","o","o","t">>)].ok

\* C30: registration mode computes an identity and a name whatever the two
\* queries do, and goes on to register with them: the output of the query
\* when it prints something, and the random UUID (the random name) when it
\* prints nothing, exits with an error, or its program is absent.
C30_IdentityFallbacks ==
    [][\A uuid_outcome \in QueryOutcomes, name_outcome \in QueryOutcomes :
          AgentRegisterCommand({uuid_outcome}, {name_outcome}, {TRUE}, BOOLEAN)
          => /\ agent'.pc = "stopped"
             /\ resp'.op = "create_update_machine"
             /\ resp'.body.id = IF uuid_outcome = "output"
                                THEN SystemUuid ELSE RandomUuid
             /\ resp'.body.name = IF name_outcome = "output"
                                  THEN Hostname ELSE RandomName]_vars

\* C31: a command's output is null exactly when its status is pending: it is
\* null from the creation to the first completion, and once it is not null
\* it is never null again, whatever value was reported, null included.
C31_OutputNullIffPending ==
    /\ [](\A i \in 1..Len(commands) :
             (commands[i].output = None) <=> (commands[i].status = "pending"))
    /\ [][\A i \in 1..Len(commands) :
             commands[i].output # None => commands'[i].output # None]_vars

\* a command completed with a null result, and one still pending beside it
C31_Witness ==
    \E i, j \in 1..Len(commands) :
        /\ commands[i].status = "completed"
        /\ commands[i].output = [json |-> None]
        /\ commands[j].status = "pending"
        /\ commands[j].output = None
        /\ resp.op = "store_command_result"
        /\ resp.status = HTTP_200_OK

\* C32: every string the agent executes is the content of a stored script
\* that validate accepts, namely the script of a command of the agent's own
\* machine that was pending when the agent fetched it; a stored script never
\* changes, so this is the content the script had when the command was
\* scheduled.
C32_ExecutesOnlyScheduledScripts ==
    /\ [](\A k \in 1..Len(executed) :
             LET e == executed[k]
             IN  /\ CommandExists(e.id)
                 /\ commands[e.id].machine_id = agent.agent_id
                 /\ ScriptExists(commands[e.id].script_name)
                 /\ scripts[commands[e.id].script_name] = e.command
                 /\ Validated[e.command].ok)
    /\ [][\A n \in DOMAIN scripts :
             n \in DOMAIN scripts' /\ scripts'[n] = scripts[n]]_vars
    /\ [][ExecutionStarts =>
             /\ Len(executed') = Len(executed) + 1
             /\ \E i \in 1..Len(agent.batch) :
                   /\ agent.batch[i].id = executed'[Len(executed')].id
                   /\ agent.batch[i].script.content = executed'[Len(executed')].command]_vars
    /\ [][(agent.pc = "fetch" /\ agent'.pc = "handle") =>
             \A i \in 1..Len(agent'.batch) :
                 /\ CommandExists(agent'.batch[i].id)
                 /\ commands[agent'.batch[i].id].status = "pending"
                 /\ commands[agent'.batch[i].id].machine_id = agent.agent_id]_vars

\* the agent has executed the script of its command, while a command of the
\* other machine for the other script is pending and was never executed
C32_Witness ==
    \E k \in 1..Len(executed), j \in 1..Len(commands) :
        /\ executed[k].command = ContentLs
        /\ commands[executed[k].id].script_name = NameInfo
        /\ commands[j].machine_id # AgentId
        /\ commands[j].script_name = NameDiag
        /\ commands[j].status = "pending"
        /\ scripts[NameDiag] = ContentUname
        /\ \A m \in 1..Len(executed) : executed[m].id # j

\* C33: once the agent, running with the default interval over a network
\* that delivers every request, has polled, every listing of the active
\* machines contains its machine.
C33_PollingKeepsMachineActive ==
    [][(/\ agent.pc \in {"handle", "report", "sleep"}
        /\ interval = liveness_window
        /\ resp'.op = "list_machines")
       => \E m \in resp'.body : m.id = agent.agent_id]_vars

\* a script was created under this name: createScript stores it under the
\* normalised name, and nothing removes a script
CreatedAs(name) ==
    ScriptExists(Normalized[name])

\* the pending command scheduleCommand creates
ScheduledFor(machine_id, name) ==
    /\ resp'.status = HTTP_200_OK
    /\ commands' = Append(commands, [machine_id |-> machine_id,
                                     script_name |-> Normalized[name],
                                     status |-> "pending",
                                     output |-> None])

\* C34: after createScript(name, content) has succeeded, scheduleCommand for
\* an existing machine and the same name finds the script and creates a
\* pending command for it, whatever the name.
C34_ScheduleFindsCreatedName ==
    [][\A id \in MachineIds, name \in ScriptNames :
          (/\ MachineExists(id)
           /\ CreatedAs(name)
           /\ schedule_machine_command(id, name))
          => ScheduledFor(id, name)]_vars

\* C34 as the code has it: the script is found when the name given is the
\* name createScript returned, that is, the normalised one; a name that
\* normalisation changes is answered NotFound and no command is created.
C34_ScheduleFindsReturnedName ==
    [][\A id \in MachineIds, name \in ScriptNames :
          (/\ MachineExists(id)
           /\ CreatedAs(name)
           /\ schedule_machine_command(id, name))
          => IF name = Normalized[name]
             THEN ScheduledFor(id, name)
             ELSE /\ resp'.status = HTTP_404_NOT_FOUND
                  /\ resp'.body = "Script"
                  /\ commands' = commands]_vars

\* the script is stored and was scheduled under the name returned, and the
\* request with the name as it was submitted has just been refused
C34_Witness ==
    /\ ScriptExists(NameDiag)
    /\ NameDiag = Normalized[NameDiagRaw]
    /\ \E i \in 1..Len(commands) :
          commands[i].script_name = NameDiag /\ commands[i].status = "pending"
    /\ resp.op = "schedule_machine_command"
    /\ resp.status = HTTP_404_NOT_FOUND
    /\ resp.body = "Script"

====
